---- MODULE Spec2Model ----
(***************************************************************************)
(* A model of the row storage and transactional datastore core:            *)
(*   - the flat row store of crates/sats/src/flat (Page, Pages, OffsetMap, *)
(*     Table), translated from the Rust source;                            *)
(*   - the RelationalDB facade of crates/core/src/db/relational_db.rs over *)
(*     the locking datastore and the commit log;                           *)
(*   - the LendingPool of crates/core/src/util/lending_pool.rs.            *)
(* Each component has a specification of its own (SpecOffsetMap,           *)
(* SpecPages, SpecTable, SpecDB, SpecScope, SpecCatalog, SpecCommitLog,    *)
(* SpecEncoding, SpecLendingPool); the variables of the other components   *)
(* stay at their initial values under it.                                  *)
(***************************************************************************)
EXTENDS Integers, Sequences, FiniteSets, TLC

VARIABLES
    om,          \* OffsetMap under SpecOffsetMap: offset_map, colliders, emptied_collider_slots
    om_live,     \* history: per hash, the offsets inserted and not yet removed
    om_ret,      \* the last OffsetMap operation and what it returned
    pg,          \* Pages under SpecPages: pages, curr
    pg_ret,      \* the last Pages operation, its arguments and its outcome
    table,       \* Table under SpecTable: pages (a Pages) and offset_map (an OffsetMap)
    t_inserted,  \* history: rows handed to Table::insert and not deleted since
    t_ret,       \* the last Table operation, its arguments and its outcome
    \* RelationalDB on one directory, under SpecDB:
    lock_file,   \* the handle holding the exclusive lock on root/db.lock, or NoHandle
    hstate,      \* per handle: where its RelationalDB::open stands, or "open" / "closed"
    boot,        \* history, per handle: its current open call has bootstrapped a datastore
    inner,       \* per handle: the Locking datastore (committed state, tx state, mutex)
    mlog,        \* the message log on disk: the transactions appended, in order
    pc,          \* per thread: idle, begin (in begin_tx), tx (holding a MutTx), append
    th,          \* per thread: the handle its current call is made on
    tx_id,       \* per thread: the rank in which its transaction acquired the lock
    tx_data,     \* per thread: the TxData commit_mut_tx returned, while in append
    next_tx,     \* the number of transactions begun so far, plus one
    db_ret,      \* per thread: its last operation and what it returned
    wrote,       \* history, per thread: the kinds of write its transaction has made
    snap,        \* history, per thread: what was visible when its transaction began
    last_end,    \* history, per handle: how the last ended transaction ended
    acc,         \* history, per handle: what the committed transactions made visible
    scope,       \* per thread: the scoped helper it is in, f's result, how the tx was ended
    cat,         \* the datastore with its catalog, under SpecCatalog
    cat_log,     \* the transactions committed under SpecCatalog, in order
    cat_ret,     \* the last operation under SpecCatalog and what it returned
    clog,        \* the commit log of one directory and the handle opened on it, under SpecCommitLog
    enc,         \* a type, a value of it, its flat encoding and what nest made of it, under SpecEncoding
    lp           \* a LendingPool and the tasks that use it, under SpecLendingPool

omvars == <<om, om_live, om_ret>>
pgvars == <<pg, pg_ret>>
tblvars == <<table, t_inserted, t_ret>>
dbvars == <<lock_file, hstate, boot, inner, mlog, pc, th, tx_id, tx_data, next_tx,
            db_ret, wrote, snap, last_end, acc>>
scvars == <<scope>>
catvars == <<cat, cat_log, cat_ret>>
clvars == <<clog>>
encvars == <<enc>>
lpvars == <<lp>>

\* The last operations and the tags of their results come first: results of
\* different operations have values of different shapes, and a step is told
\* apart from a stuttering step by the operation before the values are
\* compared.
vars == <<om_ret.op, pg_ret.op, pg_ret.ret.tag, t_ret.op, t_ret.ret.tag,
          cat_ret.op, cat_ret.ret.tag, clog.ret.tag, enc.st,
          om, om_live, om_ret, pg, pg_ret, table, t_inserted, t_ret,
          lock_file, hstate, boot, inner, mlog, pc, th, tx_id, tx_data, next_tx,
          db_ret, wrote, snap, last_end, acc, scope, cat, cat_log, cat_ret, clog, enc, lp>>

\* ------------------------------------------------------------------------
\* Bounds of the model
\* ------------------------------------------------------------------------

\* Row hashes are drawn from 0 .. MaxHash - 1.
MaxHash == 2
\* In-page offsets handed to the OffsetMap alone are drawn from 0 .. MaxOffset - 1.
MaxOffset == 4

Hashes == 0 .. (MaxHash - 1)

\* BufferOffset (raw_page.rs): the index of a page and the offset within it.
BufferOffset(page, offset_in_page) ==
    [page_index |-> page, offset_in_page |-> offset_in_page]

OMOffsets == {BufferOffset(0, o) : o \in 0 .. (MaxOffset - 1)}

\* Vec::swap_remove: the element at i (1-based here) is replaced by the last one.
SwapRemove(s, i) ==
    IF i = Len(s)
    THEN SubSeq(s, 1, Len(s) - 1)
    ELSE [SubSeq(s, 1, Len(s) - 1) EXCEPT ![i] = s[Len(s)]]

\* Variant of Position that never finds the element.
Position_never_found(s, x) == 0

\* slice::iter().position(): the first index holding x, 0 when there is none.
Position(s, x) ==
    IF \E i \in 1 .. Len(s) : s[i] = x
    THEN CHOOSE i \in 1 .. Len(s) : s[i] = x /\ \A j \in 1 .. (i - 1) : s[j] # x
    ELSE 0

SeqToSet(s) == {s[i] : i \in 1 .. Len(s)}

\* ------------------------------------------------------------------------
\* OffsetMap (crates/sats/src/flat/offset_map.rs)
\* ------------------------------------------------------------------------

\* OffsetOrCollider, and the absence of a key in the primary map.
NoEntry == [tag |-> "None"]
Offset(o) == [tag |-> "Offset", offset |-> o]
Collider(ci) == [tag |-> "Collider", ci |-> ci]

\* OffsetMap::default(). Collider slot indices are 0-based as in the source;
\* colliders[ci + 1] is slot ci.
OffsetMap_default ==
    [offset_map |-> [h \in Hashes |-> NoEntry],
     colliders |-> <<>>,
     emptied_collider_slots |-> <<>>]

\* OffsetMap::offsets_for
offsets_for(m, hash) ==
    LET e == m.offset_map[hash] IN
    CASE e.tag = "None" -> <<>>
      [] e.tag = "Offset" -> <<e.offset>>
      [] e.tag = "Collider" -> m.colliders[e.ci + 1]

\* Variant of OffsetMap::insert whose reuse branch reads the last emptied
\* slot index without popping it.
OffsetMap_insert_peeks_emptied(m, hash, offset) ==
    LET e == m.offset_map[hash] IN
    CASE e.tag = "None" ->
            [m EXCEPT !.offset_map[hash] = Offset(offset)]
      [] e.tag = "Offset" ->
            IF m.emptied_collider_slots = <<>>
            THEN LET ci == Len(m.colliders) IN
                 [m EXCEPT !.colliders = Append(@, <<e.offset, offset>>),
                           !.offset_map[hash] = Collider(ci)]
            ELSE LET n == Len(m.emptied_collider_slots)
                     ci == m.emptied_collider_slots[n]
                 IN [offset_map |-> [m.offset_map EXCEPT ![hash] = Collider(ci)],
                     colliders |-> [m.colliders EXCEPT ![ci + 1] = Append(@, offset)],
                     emptied_collider_slots |-> m.emptied_collider_slots]
      [] e.tag = "Collider" ->
            [m EXCEPT !.colliders[e.ci + 1] = Append(@, offset)]

\* OffsetMap::insert
OffsetMap_insert(m, hash, offset) ==
    LET e == m.offset_map[hash] IN
    CASE e.tag = "None" ->
            \* 0 hashes so far.
            [m EXCEPT !.offset_map[hash] = Offset(offset)]
      [] e.tag = "Offset" ->
            IF m.emptied_collider_slots = <<>>
            THEN \* Allocate a new colliders slot.
                 LET ci == Len(m.colliders) IN
                 [m EXCEPT !.colliders = Append(@, <<e.offset, offset>>),
                           !.offset_map[hash] = Collider(ci)]
            ELSE \* Reuse an empty slot: emptied_collider_slots.pop(), then only
                 \* `offset` is pushed to the slot.
                 LET n == Len(m.emptied_collider_slots)
                     ci == m.emptied_collider_slots[n]
                 IN [offset_map |-> [m.offset_map EXCEPT ![hash] = Collider(ci)],
                     colliders |-> [m.colliders EXCEPT ![ci + 1] = Append(@, offset)],
                     emptied_collider_slots |-> SubSeq(m.emptied_collider_slots, 1, n - 1)]
      [] e.tag = "Collider" ->
            \* Already using a list; add to it.
            [m EXCEPT !.colliders[e.ci + 1] = Append(@, offset)]

\* Variant of OffsetMap::remove that never simplifies a slot of one remaining
\* offset back to an inline Offset.
OffsetMap_remove_never_demotes(m, hash, offset) ==
    LET e == m.offset_map[hash] IN
    CASE e.tag = "None" -> [m |-> m, ret |-> FALSE]
      [] e.tag = "Offset" ->
            IF e.offset = offset
            THEN [m |-> [m EXCEPT !.offset_map[hash] = NoEntry], ret |-> TRUE]
            ELSE [m |-> m, ret |-> FALSE]
      [] e.tag = "Collider" ->
            LET slot == m.colliders[e.ci + 1]
                idx == Position(slot, offset)
            IN IF idx = 0
               THEN [m |-> m, ret |-> FALSE]
               ELSE LET slot1 == SwapRemove(slot, idx) IN
                    IF Len(slot1) = 0
                    THEN [m |-> [offset_map |-> [m.offset_map EXCEPT ![hash] = NoEntry],
                                 colliders |-> [m.colliders EXCEPT ![e.ci + 1] = slot1],
                                 emptied_collider_slots |->
                                     Append(m.emptied_collider_slots, e.ci)],
                          ret |-> TRUE]
                    ELSE [m |-> [m EXCEPT !.colliders[e.ci + 1] = slot1],
                          ret |-> TRUE]

\* OffsetMap::remove: the map afterwards and the boolean returned.
OffsetMap_remove(m, hash, offset) ==
    LET e == m.offset_map[hash] IN
    CASE e.tag = "None" -> [m |-> m, ret |-> FALSE]
      [] e.tag = "Offset" ->
            IF e.offset = offset
            THEN [m |-> [m EXCEPT !.offset_map[hash] = NoEntry], ret |-> TRUE]
            ELSE [m |-> m, ret |-> FALSE]
      [] e.tag = "Collider" ->
            LET slot == m.colliders[e.ci + 1]
                idx == Position(slot, offset)
            IN IF idx = 0
               THEN [m |-> m, ret |-> FALSE]
               ELSE LET slot1 == SwapRemove(slot, idx) IN
                    CASE Len(slot1) = 0 ->
                            \* Remove entry due to `hash -> []`; the slot is pushed
                            \* on the stack of emptied slots.
                            [m |-> [offset_map |-> [m.offset_map EXCEPT ![hash] = NoEntry],
                                    colliders |-> [m.colliders EXCEPT ![e.ci + 1] = slot1],
                                    emptied_collider_slots |->
                                        Append(m.emptied_collider_slots, e.ci)],
                             ret |-> TRUE]
                      [] Len(slot1) = 1 ->
                            \* Simplify to Offset(slot.pop()); the slot is now empty.
                            [m |-> [offset_map |->
                                        [m.offset_map EXCEPT ![hash] = Offset(slot1[1])],
                                    colliders |-> [m.colliders EXCEPT ![e.ci + 1] = <<>>],
                                    emptied_collider_slots |->
                                        Append(m.emptied_collider_slots, e.ci)],
                             ret |-> TRUE]
                      [] OTHER ->
                            [m |-> [m EXCEPT !.colliders[e.ci + 1] = slot1],
                             ret |-> TRUE]

\* offsets_for_mut(hash).iter_mut().find(|o| **o == old) = new, as Table::delete
\* uses it; found is FALSE when find() returns None (the caller unwraps it).
OffsetMap_replace(m, hash, old, new) ==
    LET e == m.offset_map[hash] IN
    CASE e.tag = "None" -> [m |-> m, found |-> FALSE]
      [] e.tag = "Offset" ->
            IF e.offset = old
            THEN [m |-> [m EXCEPT !.offset_map[hash] = Offset(new)], found |-> TRUE]
            ELSE [m |-> m, found |-> FALSE]
      [] e.tag = "Collider" ->
            LET idx == Position(m.colliders[e.ci + 1], old) IN
            IF idx = 0
            THEN [m |-> m, found |-> FALSE]
            ELSE [m |-> [m EXCEPT !.colliders[e.ci + 1][idx] = new], found |-> TRUE]

\* ------------------------------------------------------------------------
\* Page and Pages (crates/sats/src/flat/raw_page.rs)
\* ------------------------------------------------------------------------

\* The size of a page. The source has u16::MAX - 8 = 65527; the model scales it
\* down so that whole page contents can be enumerated.
PAGE_SIZE == 2
\* PageIndex::MAX. The source has u32::MAX; scaled down likewise, so that
\* Pages::allocate's own check bounds the number of pages.
PageIndex_MAX == 3
\* The number of values of usize. The source has 2^64 (or 2^32); scaled down
\* with PageIndex::MAX, which stays below it.
usize_MODULUS == 8
\* The bytes handed to Pages::append alone are drawn from 0 .. MaxByte - 1.
MaxByte == 1

Bytes == 0 .. (MaxByte - 1)
\* A buffer cell that was never written (MaybeUninit): reading it is undefined
\* and may yield any byte.
Uninit == -1

Ok(v) == [tag |-> "Ok", val |-> v]
Err(e) == [tag |-> "Err", val |-> e]
Some(v) == [tag |-> "Some", val |-> v]
None == [tag |-> "None", val |-> "None"]
\* The call did not return: it panicked (unwinding from where it stood).
Panic(msg) == [tag |-> "Panic", val |-> msg]
\* The process was stopped at an out-of-bounds access (one outcome of the
\* undefined behaviour of writing or reading past a page buffer).
Abort == [tag |-> "Abort", val |-> "out of bounds"]

\* Page::allocate: len is written, the buffer is left uninitialized.
Page_allocate == [len |-> 0, buffer |-> [i \in 1 .. PAGE_SIZE |-> Uninit]]

\* Page::used_bytes returns self.buffer.len(), the length of the array.
Page_used_bytes(p) == Len(p.buffer)

\* Page::free_bytes: PAGE_SIZE - self.len in usize. When len exceeds PAGE_SIZE
\* the subtraction overflows: a build with overflow checks panics, one without
\* wraps around to 2^64 + PAGE_SIZE - len, which is above the length of any
\* slice (Wrapped). Both outcomes are returned.
Wrapped == [tag |-> "Wrapped", val |-> "2^64 + PAGE_SIZE - len"]

Page_free_bytes(p) ==
    IF p.len <= PAGE_SIZE
    THEN {Ok(PAGE_SIZE - p.len)}
    ELSE {Panic("attempt to subtract with overflow"), Wrapped}

\* <Page as Deref>::deref().is_empty()
Page_is_empty(p) == p.len = 0

\* The cell at 0-based index i of the page's memory; past the buffer lies
\* memory the page does not own.
Page_cell(p, i) == IF i < PAGE_SIZE THEN p.buffer[i + 1] ELSE Uninit

\* ptr::copy_nonoverlapping(src, buffer + at, count) restricted to the cells
\* the buffer owns.
Page_write(p, at, bytes) ==
    [i \in 1 .. PAGE_SIZE |->
        IF at < i /\ i <= at + Len(bytes) THEN bytes[i - at] ELSE p.buffer[i]]

\* Page::append: the set of outcomes [page, ret].
\* The bytes are rejected when count <= free_bytes() and written otherwise,
\* so every write runs past the end of the buffer; that is undefined
\* behaviour, with the outcomes: the process stops, or the write goes through
\* (the cells of the buffer are written, the rest lands in foreign memory)
\* and len is advanced.
Page_append(p, bytes) ==
    LET count == Len(bytes) IN
    UNION {
        IF fb.tag = "Panic"
        THEN {[page |-> p, ret |-> fb]}
        ELSE IF fb.tag = "Wrapped" \/ count <= fb.val
        THEN {[page |-> p, ret |-> Err("PageAppendError")]}
        ELSE {[page |-> p, ret |-> Abort],
              [page |-> [len |-> p.len + count,
                         buffer |-> Page_write(p, p.len, bytes)],
               ret |-> Ok(p.len % 65536)]}
        : fb \in Page_free_bytes(p)}

\* Page::slice: &self[offset .. offset + count] of the len written bytes;
\* the cells read, or a panic when the range is out of the slice's bounds.
Page_slice(p, offset, count) ==
    IF offset + count > p.len
    THEN Panic("range end index out of range for slice")
    ELSE Ok([i \in 1 .. count |-> Page_cell(p, offset + i - 1)])

\* Pages::default() / Pages::with_capacity
Pages_default == [pages |-> <<>>, curr |-> 0]

\* Pages::slice
Pages_slice(P, offset, count) ==
    IF offset.page_index >= Len(P.pages)
    THEN Panic("index out of bounds")
    ELSE Page_slice(P.pages[offset.page_index + 1], offset.offset_in_page, count)

\* Pages::allocate
Pages_allocate(P, count) ==
    LET new_len == (Len(P.pages) + count) % usize_MODULUS IN
    IF new_len >= PageIndex_MAX
    THEN [pg |-> P, ret |-> Err("TooManyPages")]
    ELSE \* self.pages.resize_with(new_len, Page::allocate)
         [pg |-> [P EXCEPT !.pages =
                     IF new_len <= Len(@)
                     THEN SubSeq(@, 1, new_len)
                     ELSE @ \o [i \in 1 .. (new_len - Len(@)) |-> Page_allocate]],
          ret |-> Ok("unit")]

\* Pages::allocate, over the builds: `self.len() + count` is an unchecked
\* usize addition, which panics where overflow checks are compiled in and
\* wraps where they are not.
Pages_allocate_outcomes(P, count) ==
    {Pages_allocate(P, count)}
        \cup (IF Len(P.pages) + count >= usize_MODULUS
              THEN {[pg |-> P, ret |-> Panic("attempt to add with overflow")]}
              ELSE {})

\* The second half of Pages::append: the working page refused the bytes.
Pages_append_next(P, bytes) ==
    LET a == IF P.curr + 1 >= Len(P.pages)
             THEN Pages_allocate(P, 1)
             ELSE [pg |-> P, ret |-> Ok("unit")]
    IN IF a.ret.tag = "Err"
       THEN {[pg |-> P, ret |-> a.ret]}
       ELSE LET P1 == [a.pg EXCEPT !.curr = @ + 1] IN
            IF P1.curr >= Len(P1.pages)
            THEN {[pg |-> P1, ret |-> Panic("index out of bounds")]}
            ELSE {IF r.ret.tag = "Ok"
                  THEN [pg |-> [P1 EXCEPT !.pages[P1.curr + 1] = r.page],
                        ret |-> Ok(BufferOffset(P1.curr, r.ret.val))]
                  ELSE IF r.ret.tag = "Err"
                  THEN [pg |-> P1, ret |-> Panic("next page should be empty")]
                  ELSE [pg |-> P1, ret |-> r.ret]
                  : r \in Page_append(P1.pages[P1.curr + 1], bytes)}

\* Pages::append: the set of outcomes [pg, ret].
Pages_append(P, bytes) ==
    IF Len(bytes) > PAGE_SIZE
    THEN {[pg |-> P, ret |-> Err("DataWontFit")]}
    ELSE LET a == IF P.pages = <<>>
                  THEN Pages_allocate(P, 1)
                  ELSE [pg |-> P, ret |-> Ok("unit")]
         IN IF a.ret.tag = "Err"
            THEN {[pg |-> P, ret |-> a.ret]}
            ELSE LET P1 == a.pg IN
                 IF P1.curr >= Len(P1.pages)
                 THEN {[pg |-> P1, ret |-> Panic("index out of bounds")]}
                 ELSE UNION {
                        IF r.ret.tag = "Ok"
                        THEN {[pg |-> [P1 EXCEPT !.pages[P1.curr + 1] = r.page],
                               ret |-> Ok(BufferOffset(P1.curr, r.ret.val))]}
                        ELSE IF r.ret.tag = "Err"
                        THEN Pages_append_next(P1, bytes)
                        ELSE {[pg |-> P1, ret |-> r.ret]}
                        : r \in Page_append(P1.pages[P1.curr + 1], bytes)}

\* Pages::swap_remove
Pages_swap_remove(P, offset, data_len) ==
    IF offset.page_index >= Len(P.pages)
    THEN [pg |-> P, ret |-> None]
    ELSE
    LET dst_idx == offset.page_index + 1
        dst_page_offset == offset.offset_in_page
        dst_page_len == Page_used_bytes(P.pages[dst_idx])
    IN
    IF ~(dst_page_offset + data_len <= dst_page_len)
    THEN [pg |-> P, ret |-> None]
    ELSE IF P.curr >= Len(P.pages)
    THEN [pg |-> P, ret |-> Panic("index out of bounds")]
    ELSE
    LET src_idx == P.curr + 1
        src_page_len == Page_used_bytes(P.pages[src_idx])
    IN
    IF src_page_len < data_len
    THEN [pg |-> P, ret |-> None]
    ELSE
    LET src_page_offset == src_page_len - data_len
        moved == [i \in 1 .. data_len |-> P.pages[src_idx].buffer[src_page_offset + i]]
        \* ptr::copy(src, dst, data_len)
        copied == [P.pages EXCEPT ![dst_idx].buffer =
                      [i \in 1 .. PAGE_SIZE |->
                          IF dst_page_offset < i /\ i <= dst_page_offset + data_len
                          THEN moved[i - dst_page_offset]
                          ELSE @[i]]]
        \* src_page.set_len(src_page_offset)
        shortened == [copied EXCEPT ![src_idx].len = src_page_offset]
        swapped == BufferOffset(P.curr, src_page_offset % 65536)
    IN [pg |-> [pages |-> shortened,
                curr |-> IF Page_is_empty(shortened[src_idx])
                         THEN (IF P.curr = 0 THEN 0 ELSE P.curr - 1)
                         ELSE P.curr],
        ret |-> Some(swapped)]

\* Pages::shrink_to_fit: pages.truncate(curr + pages[curr].is_empty() as usize);
\* indexing pages[curr] panics when there is no such page, and truncate to
\* more than the length does nothing.
Pages_shrink_to_fit(P) ==
    IF P.curr >= Len(P.pages)
    THEN [pg |-> P, ret |-> Panic("index out of bounds")]
    ELSE LET keep == P.curr + (IF Page_is_empty(P.pages[P.curr + 1]) THEN 1 ELSE 0)
         IN [pg |-> [P EXCEPT !.pages = IF keep < Len(@) THEN SubSeq(@, 1, keep) ELSE @],
             ret |-> Ok("unit")]

\* ------------------------------------------------------------------------
\* Table (crates/sats/src/flat/table.rs)
\* ------------------------------------------------------------------------

\* fixed_row_size of the table's row type: rows of one u8 column.
FixedRowSize == 1

\* The bytes of a row are drawn from 0 .. MaxRowByte - 1.
MaxRowByte == 3

RowBytes == 0 .. (MaxRowByte - 1)

\* The rows of the table's type, as their flat bytes.
Rows == [1 .. FixedRowSize -> RowBytes]

\* hash_of: the source leaves its body open (todo!()); the specification
\* asks for a non-cryptographic content hash of the row's bytes, under which
\* distinct rows may collide. Here: the sum of the bytes modulo MaxHash.
RECURSIVE SumBytes(_)
SumBytes(bytes) ==
    IF bytes = <<>> THEN 0 ELSE bytes[1] + SumBytes(Tail(bytes))

hash_of(row) == SumBytes(row) % MaxHash

\* The byte strings that reading `cells` may yield: a written cell yields its
\* byte, an uninitialized one any byte.
Concretize(cells) ==
    {r \in [1 .. Len(cells) -> RowBytes] :
        \A i \in 1 .. Len(cells) : cells[i] # Uninit => r[i] = cells[i]}

\* Table::new
Table_new == [pages |-> Pages_default, offset_map |-> OffsetMap_default]

\* Table::get_row: the cells of the row at `offset`, or a panic.
Table_get_row(T, offset) == Pages_slice(T.pages, offset, FixedRowSize)

\* Table::contains: the set of outcomes, Ok(b) or a panic of get_row.
\* `any` stops at the first offset whose row compares equal.
Table_contains(T, hash, row) ==
    LET offs == offsets_for(T.offset_map, hash)
        got(i) == Table_get_row(T, offs[i])
        sure(i) == got(i).tag = "Ok" /\ Concretize(got(i).val) = {row}
        may(i) == got(i).tag = "Ok" /\ row \in Concretize(got(i).val)
        first_panic == IF \E i \in 1 .. Len(offs) : got(i).tag = "Panic"
                       THEN CHOOSE i \in 1 .. Len(offs) :
                               /\ got(i).tag = "Panic"
                               /\ \A j \in 1 .. (i - 1) : got(j).tag # "Panic"
                       ELSE Len(offs) + 1
    IN  (IF \E i \in 1 .. Len(offs) : i < first_panic /\ may(i)
         THEN {Ok(TRUE)} ELSE {})
        \cup (IF first_panic <= Len(offs) /\ ~\E k \in 1 .. (first_panic - 1) : sure(k)
              THEN {got(first_panic)} ELSE {})
        \cup (IF first_panic > Len(offs) /\ ~\E k \in 1 .. Len(offs) : sure(k)
              THEN {Ok(FALSE)} ELSE {})

\* Table::insert: the set of outcomes [table, ret].
Table_insert(T, row) ==
    LET hash == hash_of(row) IN
    UNION {
        IF c.tag = "Panic"
        THEN {[table |-> T, ret |-> c]}
        ELSE IF c.val
        THEN \* Ensure row isn't already there.
             {[table |-> T, ret |-> None]}
        ELSE {IF a.ret.tag = "Ok"
              THEN [table |-> [pages |-> a.pg,
                               offset_map |->
                                   OffsetMap_insert(T.offset_map, hash, a.ret.val)],
                    ret |-> Some(a.ret.val)]
              ELSE IF a.ret.tag = "Err"
              THEN [table |-> [T EXCEPT !.pages = a.pg],
                    ret |-> Panic("overflowed u32::MAX pages")]
              ELSE [table |-> [T EXCEPT !.pages = a.pg], ret |-> a.ret]
              : a \in Pages_append(T.pages, row)}
        : c \in Table_contains(T, hash, row)}

\* Table::delete: the set of outcomes [table, ret].
Table_delete(T, hash, offset) ==
    LET rm == OffsetMap_remove(T.offset_map, hash, offset) IN
    IF ~rm.ret
    THEN {[table |-> T, ret |-> Ok(FALSE)]}
    ELSE
    LET sr == Pages_swap_remove(T.pages, offset, FixedRowSize)
        T1 == [pages |-> sr.pg, offset_map |-> rm.m]
    IN
    IF sr.ret.tag = "None"
    THEN {[table |-> T1, ret |-> Panic("called Option::unwrap() on a None value")]}
    ELSE IF sr.ret.tag = "Panic"
    THEN {[table |-> T1, ret |-> sr.ret]}
    ELSE
    LET swap_offset == sr.ret.val IN
    IF offset = swap_offset
    THEN {[table |-> T1, ret |-> Ok(TRUE)]}
    ELSE \* Another row was moved into the place of the removed one.
         LET swap_row == Table_get_row(T1, offset) IN
         IF swap_row.tag = "Panic"
         THEN {[table |-> T1, ret |-> swap_row]}
         ELSE {LET fix == OffsetMap_replace(T1.offset_map, hash_of(r), swap_offset, offset)
               IN IF fix.found
                  THEN [table |-> [T1 EXCEPT !.offset_map = fix.m], ret |-> Ok(TRUE)]
                  ELSE [table |-> T1,
                        ret |-> Panic("called Option::unwrap() on a None value")]
               : r \in Concretize(swap_row.val)}

\* ------------------------------------------------------------------------
\* SpecOffsetMap: an OffsetMap driven by insert and remove
\* ------------------------------------------------------------------------

OmIdle == [op |-> "none", hash |-> 0, offset |-> BufferOffset(0, 0), ret |-> FALSE]
PgIdle == [op |-> "none", arg |-> <<>>, ret |-> Ok("unit")]
TblIdle == [op |-> "none", arg |-> <<>>, ret |-> Ok("unit")]

\* The offsets live in the map, under any hash.
OmLiveOffsets == UNION {om_live[h] : h \in Hashes}

\* insert(hash, offset). A BufferOffset addresses one row, so the caller
\* (Table::insert, with the offset Pages::append returned) never inserts an
\* offset that is still live.
OmInsert(hash, offset) ==
    /\ offset \notin OmLiveOffsets
    /\ om' = OffsetMap_insert(om, hash, offset)
    /\ om_live' = [om_live EXCEPT ![hash] = @ \cup {offset}]
    /\ om_ret' = [op |-> "insert", hash |-> hash, offset |-> offset, ret |-> TRUE]
    /\ UNCHANGED <<pgvars, tblvars, dbvars, scvars, catvars, clvars, encvars, lpvars>>

\* remove(hash, offset), of any hash and offset.
OmRemove(hash, offset) ==
    LET r == OffsetMap_remove(om, hash, offset) IN
    /\ om' = r.m
    /\ om_live' = IF r.ret THEN [om_live EXCEPT ![hash] = @ \ {offset}] ELSE om_live
    /\ om_ret' = [op |-> "remove", hash |-> hash, offset |-> offset, ret |-> r.ret]
    /\ UNCHANGED <<pgvars, tblvars, dbvars, scvars, catvars, clvars, encvars, lpvars>>

\* ------------------------------------------------------------------------
\* SpecPages: a Pages driven by allocate, append and swap_remove
\* ------------------------------------------------------------------------

\* The byte strings handed to append: every length up to PAGE_SIZE + 1.
AppendInputs == UNION {[1 .. n -> Bytes] : n \in 0 .. (PAGE_SIZE + 1)}

PageIndices == 0 .. (PageIndex_MAX - 1)

\* The counts handed to allocate: small ones, and the largest usize.
AllocateCounts == {1, 2, usize_MODULUS - 1}

\* No operation follows one at which the process was stopped.
PgRunning == pg_ret.ret.tag # "Abort"

PgAllocate(count) ==
    \E r \in Pages_allocate_outcomes(pg, count) :
        /\ PgRunning
        /\ pg' = r.pg
        /\ pg_ret' = [op |-> "allocate", arg |-> <<count>>, ret |-> r.ret]
        /\ UNCHANGED <<omvars, tblvars, dbvars, scvars, catvars, clvars, encvars, lpvars>>

PgAppend(bytes) ==
    \E r \in Pages_append(pg, bytes) :
        /\ PgRunning
        /\ pg' = r.pg
        /\ pg_ret' = [op |-> "append", arg |-> bytes, ret |-> r.ret]
        /\ UNCHANGED <<omvars, tblvars, dbvars, scvars, catvars, clvars, encvars, lpvars>>

PgSwapRemove(offset, data_len) ==
    LET r == Pages_swap_remove(pg, offset, data_len) IN
    /\ PgRunning
    /\ pg' = r.pg
    /\ pg_ret' = [op |-> "swap_remove", arg |-> <<offset, data_len>>, ret |-> r.ret]
    /\ UNCHANGED <<omvars, tblvars, dbvars, scvars, catvars, clvars, encvars, lpvars>>

PgShrinkToFit ==
    LET r == Pages_shrink_to_fit(pg) IN
    /\ PgRunning
    /\ pg' = r.pg
    /\ pg_ret' = [op |-> "shrink_to_fit", arg |-> <<>>, ret |-> r.ret]
    /\ UNCHANGED <<omvars, tblvars, dbvars, scvars, catvars, clvars, encvars, lpvars>>

\* ------------------------------------------------------------------------
\* SpecTable: a Table driven by insert and delete
\* ------------------------------------------------------------------------

\* The rows that a read of the table's memory at `offset` may yield.
RowsAt(T, offset) ==
    LET g == Table_get_row(T, offset) IN
    IF g.tag = "Ok" THEN Concretize(g.val) ELSE {}

\* No operation follows one at which the process was stopped.
TblRunning == t_ret.ret.tag # "Abort"

TblInsert(row) ==
    \E r \in Table_insert(table, row) :
        /\ TblRunning
        /\ table' = r.table
        /\ t_inserted' = t_inserted \cup {row}
        /\ t_ret' = [op |-> "insert", arg |-> row, ret |-> r.ret]
        /\ UNCHANGED <<omvars, pgvars, dbvars, scvars, catvars, clvars, encvars, lpvars>>

TblDelete(hash, offset) ==
    \E r \in Table_delete(table, hash, offset) :
        /\ TblRunning
        /\ table' = r.table
        /\ t_inserted' = IF r.ret.tag = "Ok" /\ r.ret.val
                         THEN t_inserted \ RowsAt(table, offset)
                         ELSE t_inserted
        /\ t_ret' = [op |-> "delete", arg |-> <<hash, offset>>, ret |-> r.ret]
        /\ UNCHANGED <<omvars, pgvars, dbvars, scvars, catvars, clvars, encvars, lpvars>>

\* ------------------------------------------------------------------------
\* Properties of the flat row store
\* ------------------------------------------------------------------------

C8_OffsetsForAreTheLiveOffsets ==
    \A h \in Hashes :
        /\ SeqToSet(offsets_for(om, h)) = om_live[h]
        /\ Len(offsets_for(om, h)) = Cardinality(om_live[h])

\* The whole store holds no byte.
Pages_store_is_empty(P) == \A i \in 1 .. Len(P.pages) : Page_is_empty(P.pages[i])

AppendedBytesAt(P, r) ==
    LET got == Pages_slice(P, r.ret.val, Len(r.arg)) IN
    got.tag = "Ok" /\ got.val = r.arg

\* C10: Pages::append of at most PAGE_SIZE bytes returns Ok(offset), with the
\* bytes now starting at offset; append of PAGE_SIZE + 1 bytes returns
\* DataWontFit.
C10_AppendUpToPageSizeSucceeds ==
    pg_ret.op = "append" =>
        /\ Len(pg_ret.arg) <= PAGE_SIZE =>
              (pg_ret.ret.tag = "Ok" /\ AppendedBytesAt(pg, pg_ret))
        /\ Len(pg_ret.arg) > PAGE_SIZE => pg_ret.ret = Err("DataWontFit")

\* C11: Pages::allocate(n) returns TooManyPages and changes nothing when the
\* number of pages would reach PageIndex::MAX; otherwise it returns Ok, adds
\* exactly n empty pages at the end and leaves the pages there and curr alone.
C11_AllocateGrowsOrRefuses ==
    [][\A n \in AllocateCounts :
          PgAllocate(n) =>
              IF Len(pg.pages) + n >= PageIndex_MAX
              THEN pg_ret'.ret = Err("TooManyPages") /\ pg' = pg
              ELSE /\ pg_ret'.ret = Ok("unit")
                   /\ pg'.curr = pg.curr
                   /\ pg'.pages = pg.pages \o [i \in 1 .. n |-> Page_allocate]]_vars

\* The offsets registered under the row's hash at which the row's bytes are read.
LiveAt(T, row) ==
    {o \in SeqToSet(offsets_for(T.offset_map, hash_of(row))) : row \in RowsAt(T, o)}

\* The offset of the last row of the working page, which a delete moves.
EndOfWorkingPage(T) ==
    IF T.pages.curr < Len(T.pages.pages)
           /\ T.pages.pages[T.pages.curr + 1].len >= FixedRowSize
    THEN {BufferOffset(T.pages.curr, T.pages.pages[T.pages.curr + 1].len - FixedRowSize)}
    ELSE {}

C26_RepresentationMatchesCount ==
    \A h \in Hashes :
        LET e == om.offset_map[h] IN
        /\ e.tag = "Collider" => Len(om.colliders[e.ci + 1]) >= 2
        /\ Cardinality(om_live[h]) = 1 => e.tag = "Offset"
        /\ e.tag # "None" => Len(offsets_for(om, h)) > 0

\* C27: insert(hash, offset) on a hash stored as Offset(existing) makes the
\* primary entry Collider(slot) and the slot exactly [existing, offset],
\* whether the slot is pushed onto colliders or taken from
\* emptied_collider_slots.
C27_PromotionStoresBoth ==
    [][\A h \in Hashes, o \in OMOffsets :
          (OmInsert(h, o) /\ om.offset_map[h].tag = "Offset") =>
              /\ om'.offset_map[h].tag = "Collider"
              /\ om'.colliders[om'.offset_map[h].ci + 1] = <<om.offset_map[h].offset, o>>]_vars

\* C28: remove on a hash stored as Collider: when the slot goes from 2
\* offsets to 1 the entry is demoted to Offset(the remaining offset), when it
\* goes from 1 to 0 the primary entry is removed, and in both cases the slot
\* is left empty and its index is pushed onto emptied_collider_slots; with 2
\* or more offsets remaining the entry stays Collider and nothing is pushed.
C28_RemoveDemotesAtTwoToOne ==
    [][\A h \in Hashes, o \in OMOffsets :
          (OmRemove(h, o) /\ om.offset_map[h].tag = "Collider" /\ om_ret'.ret) =>
              LET ci == om.offset_map[h].ci
                  before == om.colliders[ci + 1]
              IN CASE Len(before) = 2 ->
                        /\ om'.offset_map[h].tag = "Offset"
                        /\ {om'.offset_map[h].offset} = SeqToSet(before) \ {o}
                        /\ om'.colliders[ci + 1] = <<>>
                        /\ om'.emptied_collider_slots =
                               Append(om.emptied_collider_slots, ci)
                   [] Len(before) = 1 ->
                        /\ om'.offset_map[h] = NoEntry
                        /\ om'.colliders[ci + 1] = <<>>
                        /\ om'.emptied_collider_slots =
                               Append(om.emptied_collider_slots, ci)
                   [] OTHER ->
                        /\ om'.offset_map[h] = Collider(ci)
                        /\ Len(om'.colliders[ci + 1]) = Len(before) - 1
                        /\ Len(om'.colliders[ci + 1]) >= 2
                        /\ om'.emptied_collider_slots = om.emptied_collider_slots]_vars

\* A remove has just demoted a collider of two offsets to an inline Offset and
\* pushed its emptied slot.
C28_Witness ==
    /\ om_ret.op = "remove"
    /\ om_ret.ret
    /\ om.offset_map[om_ret.hash].tag = "Offset"
    /\ om.emptied_collider_slots # <<>>
    /\ om.colliders[om.emptied_collider_slots[Len(om.emptied_collider_slots)] + 1] = <<>>

\* The slot indices referenced by Collider entries of the primary map.
LiveSlots(m) == {m.offset_map[h].ci : h \in {g \in Hashes : m.offset_map[g].tag = "Collider"}}

\* C29: after any sequence of inserts and removes no slot referenced by a
\* Collider entry is in emptied_collider_slots, no index occurs twice in
\* emptied_collider_slots, every index in it names an empty slot, no two
\* hashes reference the same slot, and the colliders vector never shrinks.
C29_SlotBookkeeping ==
    [][LET es == om'.emptied_collider_slots IN
       /\ LiveSlots(om') \cap SeqToSet(es) = {}
       /\ \A i, j \in 1 .. Len(es) : es[i] = es[j] => i = j
       /\ \A i \in 1 .. Len(es) : om'.colliders[es[i] + 1] = <<>>
       /\ \A g, h \in Hashes :
              (/\ om'.offset_map[g].tag = "Collider"
               /\ om'.offset_map[h].tag = "Collider"
               /\ om'.offset_map[g].ci = om'.offset_map[h].ci) => g = h
       /\ Len(om'.colliders) >= Len(om.colliders)]_vars

\* One hash holds a live collider slot while another slot sits emptied.
C29_Witness ==
    /\ LiveSlots(om) # {}
    /\ om.emptied_collider_slots # <<>>
    /\ Len(om.colliders) >= 2

\* C30: remove(hash, offset) returns true iff offset was among
\* offsets_for(hash) before the call; when it returns false the primary map,
\* colliders and emptied_collider_slots are unchanged.
C30_RemoveReportsMembership ==
    [][\A h \in Hashes, o \in OMOffsets :
          OmRemove(h, o) =>
              /\ om_ret'.ret <=> o \in SeqToSet(offsets_for(om, h))
              /\ ~om_ret'.ret => om' = om]_vars

\* A remove of an offset that is not in the collider slot of its hash has
\* returned false.
C30_Witness ==
    /\ om_ret.op = "remove"
    /\ ~om_ret.ret
    /\ om.offset_map[om_ret.hash].tag = "Collider"
    /\ om_ret.offset \notin SeqToSet(offsets_for(om, om_ret.hash))

\* C31: a successful Pages::swap_remove(offset, data_len) shortens the
\* working page's written length by exactly data_len, leaves at offset the
\* bytes that were the last data_len written bytes of the working page,
\* leaves every other page's length and bytes unchanged, returns (curr before
\* the call, old working length - data_len), and moves curr back by one
\* (saturating at 0) exactly when the working page became empty.
C31_SwapRemoveMovesTheTail ==
    [][\A pi \in PageIndices, po \in 0 .. PAGE_SIZE, n \in 0 .. (PAGE_SIZE + 1) :
          (PgSwapRemove(BufferOffset(pi, po), n) /\ pg_ret'.ret.tag = "Some") =>
              LET w == pg.curr + 1
                  d == pi + 1
                  old == pg.pages[w].len
              IN /\ Len(pg'.pages) = Len(pg.pages)
                 /\ old >= n
                 /\ pg'.pages[w].len = old - n
                 /\ pg_ret'.ret = Some(BufferOffset(pg.curr, old - n))
                 /\ \A i \in 1 .. n :
                        pg'.pages[d].buffer[po + i] = pg.pages[w].buffer[old - n + i]
                 /\ \A i \in 1 .. PAGE_SIZE :
                        (i <= po \/ i > po + n) => pg'.pages[d].buffer[i] = pg.pages[d].buffer[i]
                 /\ d # w => pg'.pages[d].len = pg.pages[d].len
                 /\ \A k \in 1 .. Len(pg.pages) :
                        (k # d /\ k # w) => pg'.pages[k] = pg.pages[k]
                 /\ pg'.curr = IF old - n = 0
                               THEN (IF pg.curr = 0 THEN 0 ELSE pg.curr - 1)
                               ELSE pg.curr]_vars

\* The offset is out of bounds for a removal of data_len bytes: its page is
\* not allocated, or the range runs past the written length of its page, or
\* the working page has fewer than data_len written bytes.
SwapRemoveOutOfBounds(P, offset, data_len) ==
    \/ offset.page_index >= Len(P.pages)
    \/ offset.offset_in_page + data_len > P.pages[offset.page_index + 1].len
    \/ data_len > P.pages[P.curr + 1].len

\* C32: Pages::swap_remove returns None and leaves every page and curr
\* unchanged when offset is out of bounds.
C32_SwapRemoveOutOfBoundsIsNone ==
    [][\A pi \in PageIndices, po \in 0 .. PAGE_SIZE, n \in 0 .. (PAGE_SIZE + 1) :
          (PgSwapRemove(BufferOffset(pi, po), n)
              /\ SwapRemoveOutOfBounds(pg, BufferOffset(pi, po), n)) =>
                  (pg_ret'.ret = None /\ pg' = pg)]_vars

\* C33: Pages::shrink_to_fit removes exactly the trailing empty pages: every
\* non-empty page keeps its index and bytes (the working page included), no
\* empty page remains after the last non-empty page, and the call does not
\* panic, also on a store with no pages.
C33_ShrinkToFitDropsTrailingEmptyPages ==
    [][(PgShrinkToFit /\ pg_ret'.op = "shrink_to_fit") =>
          /\ pg_ret'.ret.tag # "Panic"
          /\ Len(pg'.pages) <= Len(pg.pages)
          /\ \A i \in 1 .. Len(pg'.pages) : pg'.pages[i] = pg.pages[i]
          /\ \A i \in 1 .. Len(pg.pages) :
                 ~Page_is_empty(pg.pages[i]) => i <= Len(pg'.pages)
          /\ Len(pg'.pages) > 0 => ~Page_is_empty(pg'.pages[Len(pg'.pages)])]_vars

\* C34: every page's written length stays within 0 .. PAGE_SIZE: an append
\* whose bytes fit in the PAGE_SIZE - len bytes left of the working page
\* copies them there, advances len by their number and returns the old len
\* as the offset; one whose bytes do not fit leaves that page unchanged.
C34_PageLenWithinPageSize ==
    [][/\ \A i \in 1 .. Len(pg'.pages) :
              0 <= pg'.pages[i].len /\ pg'.pages[i].len <= PAGE_SIZE
       /\ \A b \in AppendInputs :
              (PgAppend(b) /\ pg.pages # <<>>) =>
                  LET w == pg.curr + 1
                      p == pg.pages[w]
                  IN IF Len(b) <= PAGE_SIZE - p.len
                     THEN /\ pg_ret'.ret = Ok(BufferOffset(pg.curr, p.len))
                          /\ pg'.pages[w].len = p.len + Len(b)
                          /\ pg'.pages[w].buffer = Page_write(p, p.len, b)
                     ELSE pg'.pages[w] = p]_vars

\* The page manager cannot store the row: Pages::append returns an error
\* (DataWontFit or TooManyPages) whatever the build.
AppendRefuses(T, row) ==
    \A a \in Pages_append(T.pages, row) : a.ret.tag = "Err"

\* C36: when the page manager cannot store a row during Table::insert, the
\* failure reaches the caller as a typed error value, the table's pages and
\* offset map are unchanged, and no panic occurs.
C36_InsertReturnsTypedError ==
    [][\A row \in Rows :
          (TblInsert(row) /\ t_ret'.arg = row /\ AppendRefuses(table, row)) =>
              (t_ret'.ret.tag = "Err" /\ table' = table)]_vars

\* ------------------------------------------------------------------------
\* The locking datastore behind RelationalDB (crates/core/src/db/datastore):
\* its code is not part of the sources at hand, and is modelled from the
\* specification: one mutex around the whole in-memory state, held by a
\* MutTx for its lifetime; a committed state and the write set of the open
\* transaction; replay applies logged inserts and deletes directly.
\* ------------------------------------------------------------------------

\* Table ids are drawn from 1 .. MaxTables, rows from 0 .. MaxRow - 1, and at
\* most MaxTx transactions are begun.
MaxTables == 1
MaxRow == 2
MaxTx == 2

TableIds == 1 .. MaxTables
DbRows == 0 .. (MaxRow - 1)
Handles == {"h1", "h2"}
NoHandle == "none"
Threads == {"t1", "t2"}
NoThread == "none"

\* The tables that exist (their st_table rows) and the rows of each.
EmptyState == [tables |-> {}, rows |-> [i \in TableIds |-> {}]]

\* The write set of a transaction: catalog rows and data rows inserted and
\* deleted. It is also the TxData a commit hands to the commit log.
EmptyTx ==
    [ins_t |-> {}, del_t |-> {},
     ins |-> [i \in TableIds |-> {}], del |-> [i \in TableIds |-> {}]]

\* Applying a write set to a state.
ApplyTx(state, w) ==
    LET tables == (state.tables \ w.del_t) \cup w.ins_t IN
    [tables |-> tables,
     rows |-> [i \in TableIds |->
                 IF i \in tables THEN (state.rows[i] \ w.del[i]) \cup w.ins[i] ELSE {}]]

\* Locking::bootstrap
Locking_bootstrap == [committed |-> EmptyState, tx_state |-> EmptyTx, lock |-> NoThread]

\* What the holder of the mutex sees: the committed state under its write set.
View(I) == ApplyTx(I.committed, I.tx_state)

\* Locking::replay_transaction, over the whole log.
RECURSIVE Replay(_, _)
Replay(state, log) ==
    IF log = <<>> THEN state ELSE Replay(ApplyTx(state, Head(log).data), Tail(log))

\* Locking::begin_mut_tx: blocks until the mutex is free, then takes it.
begin_mut_tx_enabled(I) == I.lock = NoThread
begin_mut_tx(I, t) == [I EXCEPT !.lock = t]

\* Locking::rollback_mut_tx: the write set is dropped with the MutTx.
rollback_mut_tx(I) == [I EXCEPT !.tx_state = EmptyTx, !.lock = NoThread]

\* Locking::commit_mut_tx: the write set is merged into the committed state
\* and returned as TxData; the MutTx, and with it the mutex, is dropped.
commit_mut_tx(I) ==
    [inner |-> [committed |-> View(I), tx_state |-> EmptyTx, lock |-> NoThread],
     ret |-> Ok(Some(I.tx_state))]

\* Locking::create_table_mut_tx
create_table_mut_tx(I, id) ==
    IF id \in View(I).tables
    THEN [inner |-> I, ret |-> Err("Duplicate")]
    ELSE [inner |-> [I EXCEPT !.tx_state.ins_t = @ \cup {id}], ret |-> Ok(id)]

\* Locking::drop_table_mut_tx
drop_table_mut_tx(I, id) ==
    IF id \notin View(I).tables
    THEN [inner |-> I, ret |-> Err("NotFound")]
    ELSE [inner |-> [I EXCEPT !.tx_state.ins_t = @ \ {id},
                              !.tx_state.del_t =
                                  IF id \in I.committed.tables THEN @ \cup {id} ELSE @,
                              !.tx_state.ins[id] = {},
                              !.tx_state.del[id] = I.committed.rows[id]],
          ret |-> Ok("unit")]

\* Locking::insert_mut_tx: a table holds a row at most once.
insert_mut_tx(I, id, row) ==
    IF id \notin View(I).tables
    THEN [inner |-> I, ret |-> Err("NotFound")]
    ELSE IF row \in View(I).rows[id]
    THEN [inner |-> I, ret |-> Ok(row)]
    ELSE IF row \in I.tx_state.del[id] /\ id \notin I.tx_state.ins_t
    THEN [inner |-> [I EXCEPT !.tx_state.del[id] = @ \ {row}], ret |-> Ok(row)]
    ELSE [inner |-> [I EXCEPT !.tx_state.ins[id] = @ \cup {row}], ret |-> Ok(row)]

\* Locking::delete_by_rel_mut_tx, of a relation of one row.
delete_by_rel_mut_tx(I, id, row) ==
    IF id \notin View(I).tables
    THEN [inner |-> I, ret |-> Err("NotFound")]
    ELSE IF row \in I.tx_state.ins[id]
    THEN [inner |-> [I EXCEPT !.tx_state.ins[id] = @ \ {row}], ret |-> Ok(Some(1))]
    ELSE IF row \in View(I).rows[id]
    THEN [inner |-> [I EXCEPT !.tx_state.del[id] = @ \cup {row}], ret |-> Ok(Some(1))]
    ELSE [inner |-> I, ret |-> Ok(Some(0))]

\* Locking::iter_mut_tx
iter_mut_tx(I, id) ==
    IF id \notin View(I).tables THEN Err("NotFound") ELSE Ok(View(I).rows[id])

\* CommitLog::append_tx: the transaction is appended to the message log.
append_tx(log, id, data) == Append(log, [id |-> id, data |-> data])

\* ------------------------------------------------------------------------
\* RelationalDB (crates/core/src/db/relational_db.rs)
\* ------------------------------------------------------------------------

\* Faulty variants of the operations below, against which the properties of
\* RelationalDB are tried: an open that bootstraps before it takes the lock,
\* a begin_tx that does not wait for the mutex, a rollback_tx that keeps the
\* writes, and a commit_tx that drops them.
RelationalDB_open_steps_bootstrap_first == <<"bootstrap", "try_lock_exclusive", "replay">>
begin_tx_enabled_nowait(I) == TRUE
rollback_tx_keeps_writes(I) == commit_mut_tx(I).inner
commit_tx_datastore_drops_writes(I) ==
    [inner |-> rollback_mut_tx(I), ret |-> Ok(Some(I.tx_state))]

\* RelationalDB::open, as the steps it takes in order: the exclusive lock on
\* db.lock (an early return with DatabaseOpened when it is held), then
\* Locking::bootstrap, then the replay of the message log.
RelationalDB_open_steps == <<"try_lock_exclusive", "bootstrap", "replay">>

\* RelationalDB::begin_tx
begin_tx_enabled(I) == begin_mut_tx_enabled(I)
begin_tx(I, t) == begin_mut_tx(I, t)

\* RelationalDB::rollback_tx
rollback_tx(I) == rollback_mut_tx(I)

\* RelationalDB::commit_tx, up to the return of inner.commit_mut_tx(tx): the
\* datastore afterwards and the TxData to append.
commit_tx_datastore(I) == commit_mut_tx(I)

\* RelationalDB::commit_tx, the call of commit_log.append_tx that follows.
commit_tx_append(log, id, data) == append_tx(log, id, data)

\* Faulty variants of the scoped helpers: a finish_tx that hands the
\* transaction back on Err as rollback_on_err does, and a with_read_only
\* that finishes its transaction as with_auto_commit does.
finish_tx_ends_leaves_open_on_err(res) ==
    IF res.tag = "Err" THEN "none" ELSE "commit_tx"
with_read_only_ends_commits_on_ok(res) ==
    IF res.tag = "Err" THEN "rollback_tx" ELSE "commit_tx"

\* RelationalDB::finish_tx: the call that ends the transaction, given the
\* result of the closure.
finish_tx_ends(res) ==
    IF res.tag = "Err" THEN "rollback_tx" ELSE "commit_tx"

\* RelationalDB::with_auto_commit: begin_tx, f, finish_tx(tx, res).
with_auto_commit_ends(res) == finish_tx_ends(res)

\* RelationalDB::with_read_only: begin_tx, f, rollback_tx(tx), res.
with_read_only_ends(res) == "rollback_tx"

\* RelationalDB::create_table, drop_table, insert, delete_by_rel, iter
create_table(I, id) == create_table_mut_tx(I, id)
drop_table(I, id) == drop_table_mut_tx(I, id)
insert(I, id, row) == insert_mut_tx(I, id, row)
delete_by_rel(I, id, row) == delete_by_rel_mut_tx(I, id, row)
iter(I, id) == iter_mut_tx(I, id)

\* ------------------------------------------------------------------------
\* RelationalDB: the operations, as steps of handles and threads
\* ------------------------------------------------------------------------

HClosed == [st |-> "closed", step |-> 0, ret |-> "none"]
HFailed == [st |-> "closed", step |-> 0, ret |-> "DatabaseOpened"]
HOpen == [st |-> "open", step |-> 0, ret |-> "Ok"]
HOpening(i) == [st |-> "opening", step |-> i, ret |-> "pending"]
NoEnd == [kind |-> "none", snap |-> EmptyState, wrote |-> {}]
NoRet == [op |-> "none", arg |-> 0, ret |-> Ok("unit")]

\* A call of RelationalDB::open on the directory.
OpenCall(h) ==
    /\ hstate[h].st = "closed"
    /\ hstate' = [hstate EXCEPT ![h] = HOpening(1)]
    /\ boot' = [boot EXCEPT ![h] = FALSE]
    /\ UNCHANGED <<lock_file, inner, mlog, pc, th, tx_id, tx_data, next_tx,
                   db_ret, wrote, snap, last_end, acc>>
    /\ UNCHANGED <<omvars, pgvars, tblvars, scvars, catvars, clvars, encvars, lpvars>>

\* The next step of a running RelationalDB::open. A failed try_lock_exclusive
\* returns DatabaseOpened and drops what the call has built.
OpenStep(h) ==
    /\ hstate[h].st = "opening"
    /\ LET i == hstate[h].step
           step == RelationalDB_open_steps[i]
           after == IF i = Len(RelationalDB_open_steps) THEN HOpen ELSE HOpening(i + 1)
       IN  IF step = "try_lock_exclusive"
           THEN IF lock_file = NoHandle
                THEN /\ lock_file' = h
                     /\ hstate' = [hstate EXCEPT ![h] = after]
                     /\ UNCHANGED <<inner, boot>>
                ELSE /\ hstate' = [hstate EXCEPT ![h] = HFailed]
                     /\ inner' = [inner EXCEPT ![h] = Locking_bootstrap]
                     /\ UNCHANGED <<lock_file, boot>>
           ELSE IF step = "bootstrap"
           THEN /\ inner' = [inner EXCEPT ![h] = Locking_bootstrap]
                /\ boot' = [boot EXCEPT ![h] = TRUE]
                /\ hstate' = [hstate EXCEPT ![h] = after]
                /\ UNCHANGED lock_file
           ELSE /\ inner' = [inner EXCEPT ![h].committed = Replay(@, mlog)]
                /\ boot' = [boot EXCEPT ![h] = TRUE]
                /\ hstate' = [hstate EXCEPT ![h] = after]
                /\ UNCHANGED lock_file
    /\ UNCHANGED <<mlog, pc, th, tx_id, tx_data, next_tx, db_ret, wrote, snap,
                   last_end, acc>>
    /\ UNCHANGED <<omvars, pgvars, tblvars, scvars, catvars, clvars, encvars, lpvars>>

\* The RelationalDB is dropped: the datastore goes and db.lock is released.
Close(h) ==
    /\ hstate[h].st = "open"
    /\ \A t \in Threads : th[t] # h
    /\ hstate' = [hstate EXCEPT ![h] = HClosed]
    /\ lock_file' = IF lock_file = h THEN NoHandle ELSE lock_file
    /\ inner' = [inner EXCEPT ![h] = Locking_bootstrap]
    /\ boot' = [boot EXCEPT ![h] = FALSE]
    /\ last_end' = [last_end EXCEPT ![h] = NoEnd]
    /\ acc' = [acc EXCEPT ![h] = EmptyState]
    /\ UNCHANGED <<mlog, pc, th, tx_id, tx_data, next_tx, db_ret, wrote, snap>>
    /\ UNCHANGED <<omvars, pgvars, tblvars, scvars, catvars, clvars, encvars, lpvars>>

\* A thread calls begin_tx on an open handle ...
BeginCallStep(t, h) ==
    /\ pc[t] = "idle"
    /\ hstate[h].st = "open"
    /\ next_tx + Cardinality({u \in Threads : pc[u] = "begin"}) <= MaxTx
    /\ pc' = [pc EXCEPT ![t] = "begin"]
    /\ th' = [th EXCEPT ![t] = h]
    /\ UNCHANGED <<lock_file, hstate, boot, inner, mlog, tx_id, tx_data, next_tx,
                   db_ret, wrote, snap, last_end, acc>>
    /\ UNCHANGED <<omvars, pgvars, tblvars, catvars, clvars, encvars, lpvars>>

BeginCall(t, h) ==
    BeginCallStep(t, h) /\ UNCHANGED scvars

\* ... and begin_tx returns the MutTxId once the mutex is its own.
BeginAcquire(t) ==
    /\ pc[t] = "begin"
    /\ begin_tx_enabled(inner[th[t]])
    /\ inner' = [inner EXCEPT ![th[t]] = begin_tx(@, t)]
    /\ pc' = [pc EXCEPT ![t] = "tx"]
    /\ tx_id' = [tx_id EXCEPT ![t] = next_tx]
    /\ next_tx' = next_tx + 1
    /\ snap' = [snap EXCEPT ![t] = View(inner[th[t]])]
    /\ wrote' = [wrote EXCEPT ![t] = {}]
    /\ db_ret' = [db_ret EXCEPT ![t] = [op |-> "begin_tx", arg |-> 0, ret |-> Ok(next_tx)]]
    /\ UNCHANGED <<lock_file, hstate, boot, mlog, th, tx_data, last_end, acc>>
    /\ UNCHANGED <<omvars, pgvars, tblvars, scvars, catvars, clvars, encvars, lpvars>>

\* A write of the open transaction: the datastore after it, what it returned,
\* and the kind of write it was when it changed anything.
DbWrite(t, op, arg, r) ==
    /\ pc[t] = "tx"
    /\ inner' = [inner EXCEPT ![th[t]] = r.inner]
    /\ db_ret' = [db_ret EXCEPT ![t] = [op |-> op, arg |-> arg, ret |-> r.ret]]
    /\ wrote' = [wrote EXCEPT ![t] = IF r.inner # inner[th[t]] THEN @ \cup {op} ELSE @]
    /\ UNCHANGED <<lock_file, hstate, boot, mlog, pc, th, tx_id, tx_data, next_tx,
                   snap, last_end, acc>>
    /\ UNCHANGED <<omvars, pgvars, tblvars, scvars, catvars, clvars, encvars, lpvars>>

CreateTable(t, id) ==
    pc[t] = "tx" /\ DbWrite(t, "create_table", id, create_table(inner[th[t]], id))

DropTable(t, id) ==
    pc[t] = "tx" /\ DbWrite(t, "drop_table", id, drop_table(inner[th[t]], id))

Insert(t, id, row) ==
    pc[t] = "tx" /\ DbWrite(t, "insert", id, insert(inner[th[t]], id, row))

DeleteByRel(t, id, row) ==
    pc[t] = "tx" /\ DbWrite(t, "delete_by_rel", id, delete_by_rel(inner[th[t]], id, row))

Iter(t, id) ==
    /\ pc[t] = "tx"
    /\ db_ret' = [db_ret EXCEPT ![t] =
                     [op |-> "iter", arg |-> id, ret |-> iter(inner[th[t]], id)]]
    /\ UNCHANGED <<lock_file, hstate, boot, inner, mlog, pc, th, tx_id, tx_data,
                   next_tx, wrote, snap, last_end, acc>>
    /\ UNCHANGED <<omvars, pgvars, tblvars, scvars, catvars, clvars, encvars, lpvars>>

RollbackTxStep(t) ==
    /\ pc[t] = "tx"
    /\ inner' = [inner EXCEPT ![th[t]] = rollback_tx(@)]
    /\ last_end' = [last_end EXCEPT ![th[t]] = [kind |-> "rollback", snap |-> snap[t], wrote |-> wrote[t]]]
    /\ pc' = [pc EXCEPT ![t] = "idle"]
    /\ th' = [th EXCEPT ![t] = NoHandle]
    /\ tx_id' = [tx_id EXCEPT ![t] = 0]
    /\ snap' = [snap EXCEPT ![t] = EmptyState]
    /\ wrote' = [wrote EXCEPT ![t] = {}]
    /\ db_ret' = [db_ret EXCEPT ![t] = [op |-> "rollback_tx", arg |-> 0, ret |-> Ok("unit")]]
    /\ UNCHANGED <<lock_file, hstate, boot, mlog, tx_data, next_tx, acc>>
    /\ UNCHANGED <<omvars, pgvars, tblvars, catvars, clvars, encvars, lpvars>>

RollbackTx(t) ==
    RollbackTxStep(t) /\ UNCHANGED scvars

\* commit_tx up to the return of commit_mut_tx: the MutTx is consumed.
CommitTxDatastoreStep(t) ==
    /\ pc[t] = "tx"
    /\ LET r == commit_tx_datastore(inner[th[t]]) IN
        /\ inner' = [inner EXCEPT ![th[t]] = r.inner]
        /\ tx_data' = [tx_data EXCEPT ![t] = r.ret.val.val]
    /\ acc' = [acc EXCEPT ![th[t]] = View(inner[th[t]])]
    /\ last_end' = [last_end EXCEPT ![th[t]] = [kind |-> "commit", snap |-> EmptyState, wrote |-> wrote[t]]]
    /\ pc' = [pc EXCEPT ![t] = "append"]
    /\ snap' = [snap EXCEPT ![t] = EmptyState]
    /\ wrote' = [wrote EXCEPT ![t] = {}]
    /\ UNCHANGED <<lock_file, hstate, boot, mlog, th, tx_id, next_tx, db_ret>>
    /\ UNCHANGED <<omvars, pgvars, tblvars, catvars, clvars, encvars, lpvars>>

CommitTxDatastore(t) ==
    CommitTxDatastoreStep(t) /\ UNCHANGED scvars

\* commit_tx from commit_log.append_tx to its return.
CommitTxAppendStep(t) ==
    /\ pc[t] = "append"
    /\ mlog' = commit_tx_append(mlog, tx_id[t], tx_data[t])
    /\ pc' = [pc EXCEPT ![t] = "idle"]
    /\ th' = [th EXCEPT ![t] = NoHandle]
    /\ db_ret' = [db_ret EXCEPT ![t] = [op |-> "commit_tx", arg |-> tx_id[t], ret |-> Ok("unit")]]
    /\ tx_id' = [tx_id EXCEPT ![t] = 0]
    /\ tx_data' = [tx_data EXCEPT ![t] = EmptyTx]
    /\ UNCHANGED <<lock_file, hstate, boot, inner, next_tx, wrote, snap, last_end, acc>>
    /\ UNCHANGED <<omvars, pgvars, tblvars, catvars, clvars, encvars, lpvars>>

CommitTxAppend(t) ==
    CommitTxAppendStep(t) /\ UNCHANGED scvars

\* ------------------------------------------------------------------------
\* RelationalDB::with_auto_commit and with_read_only, as steps of a thread
\* ------------------------------------------------------------------------

NoScope ==
    [fn |-> "none", st |-> "none", fres |-> Ok("unit"), ended |-> <<>>,
     ret |-> Ok("unit"), tid |-> 0, wrote |-> {}, clean |-> TRUE]

ScopeFns == {"with_auto_commit", "with_read_only"}

\* The results a closure may return.
FResults == {Ok("a"), Err("e")}

\* What commit_mut_tx may return to commit_tx, and append_tx after it.
CommitOutcomes == {"Some", "None", "Err"}
AppendOutcomes == {"Ok", "Err"}

\* The helper is called: it is inside begin_tx.
ScopeCall(t, h, fn) ==
    /\ BeginCallStep(t, h)
    /\ scope' = [scope EXCEPT ![t] = [NoScope EXCEPT !.fn = fn, !.st = "running"]]

\* The closure returns `res`.
ScopeFReturn(t, res) ==
    /\ pc[t] = "tx"
    /\ scope[t].st = "running"
    /\ scope' = [scope EXCEPT ![t].st = "finishing", ![t].fres = res,
                              ![t].tid = tx_id[t], ![t].wrote = wrote[t]]
    /\ UNCHANGED <<omvars, pgvars, tblvars, dbvars, catvars, clvars, encvars, lpvars>>

\* How the helper ends its transaction.
ScopeEnds(t) ==
    IF scope[t].fn = "with_auto_commit"
    THEN with_auto_commit_ends(scope[t].fres)
    ELSE with_read_only_ends(scope[t].fres)

\* The helper does not commit: it ends the transaction with rollback_tx, or
\* leaves it as it is, and returns f's result.
ScopeRollback(t) ==
    /\ scope[t].st = "finishing"
    /\ ScopeEnds(t) # "commit_tx"
    /\ IF ScopeEnds(t) = "rollback_tx"
       THEN /\ RollbackTxStep(t)
            /\ scope' = [scope EXCEPT ![t].st = "returned",
                                      ![t].ended = Append(@, "rollback_tx"),
                                      ![t].ret = scope[t].fres,
                                      ![t].clean = (View(inner'[th[t]]) = snap[t])]
       ELSE /\ scope' = [scope EXCEPT ![t].st = "returned", ![t].ret = scope[t].fres]
            /\ UNCHANGED <<omvars, pgvars, tblvars, dbvars, catvars, clvars, encvars, lpvars>>

\* The helper calls commit_tx, whose commit_mut_tx consumes the MutTx and
\* returns Some(tx_data), None (finish_tx panics) or an error (returned).
ScopeCommit(t, outcome) ==
    /\ scope[t].st = "finishing"
    /\ ScopeEnds(t) = "commit_tx"
    /\ IF outcome = "Some"
       THEN /\ CommitTxDatastoreStep(t)
            /\ scope' = [scope EXCEPT ![t].st = "committing",
                                      ![t].ended = Append(@, "commit_tx")]
       ELSE /\ RollbackTxStep(t)
            /\ scope' = [scope EXCEPT ![t].st = "returned",
                                      ![t].ended = Append(@, "commit_tx"),
                                      ![t].ret = IF outcome = "None"
                                                 THEN Panic("TODO: retry?")
                                                 ELSE Err("DBError"),
                                      ![t].clean = (View(inner'[th[t]]) = snap[t])]

\* commit_tx goes on to commit_log.append_tx, which succeeds or fails.
ScopeAppend(t, outcome) ==
    /\ scope[t].st = "committing"
    /\ pc[t] = "append"
    /\ IF outcome = "Ok"
       THEN /\ CommitTxAppendStep(t)
            /\ scope' = [scope EXCEPT ![t].st = "returned", ![t].ret = scope[t].fres]
       ELSE /\ pc' = [pc EXCEPT ![t] = "idle"]
            /\ th' = [th EXCEPT ![t] = NoHandle]
            /\ db_ret' = [db_ret EXCEPT ![t] =
                             [op |-> "commit_tx", arg |-> tx_id[t], ret |-> Err("DBError")]]
            /\ tx_id' = [tx_id EXCEPT ![t] = 0]
            /\ tx_data' = [tx_data EXCEPT ![t] = EmptyTx]
            /\ scope' = [scope EXCEPT ![t].st = "returned", ![t].ret = Err("DBError")]
            /\ UNCHANGED <<lock_file, hstate, boot, inner, mlog, next_tx, wrote, snap,
                           last_end, acc>>
            /\ UNCHANGED <<omvars, pgvars, tblvars, catvars, clvars, encvars, lpvars>>

\* ------------------------------------------------------------------------
\* Properties of RelationalDB
\* ------------------------------------------------------------------------

\* What iter of table `id` returns when `state` is what is visible.
IterOf(state, id) ==
    IF id \in state.tables THEN Ok(state.rows[id]) ELSE Err("NotFound")

\* The thread holds a transaction that has not written yet.
FreshTx(t) == pc[t] = "tx" /\ wrote[t] = {}

\* C1: a rolled-back transaction leaves no visible trace: once the last
\* transaction on a handle has ended with rollback_tx, the tables and rows
\* visible (to the next transaction, before it writes) are those that were
\* visible when the rolled-back transaction began; iter returns those rows,
\* and drop_table succeeds only on a table that existed then.
C1_RollbackLeavesNoTrace ==
    \A h \in Handles :
        last_end[h].kind = "rollback" =>
            /\ inner[h].lock = NoThread => View(inner[h]) = last_end[h].snap
            /\ \A t \in Threads :
                  (FreshTx(t) /\ th[t] = h) =>
                      /\ View(inner[h]) = last_end[h].snap
                      /\ db_ret[t].op = "iter" =>
                            db_ret[t].ret = IterOf(last_end[h].snap, db_ret[t].arg)
            /\ \A t \in Threads :
                  (/\ pc[t] = "tx" /\ th[t] = h /\ wrote[t] = {"drop_table"}
                   /\ db_ret[t].op = "drop_table" /\ db_ret[t].ret.tag = "Ok")
                      => db_ret[t].arg \in last_end[h].snap.tables

\* A transaction that created a table and inserted a row was rolled back, and
\* the next transaction's drop_table of that table has failed.
C1_Witness ==
    \E t \in Threads :
        /\ FreshTx(t)
        /\ last_end[th[t]].kind = "rollback"
        /\ {"create_table", "insert"} \subseteq last_end[th[t]].wrote
        /\ db_ret[t].op = "drop_table"
        /\ db_ret[t].ret = Err("NotFound")

C3_LogOrderIsLockOrder ==
    \A i, j \in 1 .. Len(mlog) : i < j => mlog[i].id < mlog[j].id

\* C4: at most one MutTx is open on a datastore at any time, and its holder
\* is the owner of the mutex: a begin_tx issued meanwhile has not returned.
C4_AtMostOneMutTx ==
    \A h \in Handles :
        /\ Cardinality({t \in Threads : pc[t] = "tx" /\ th[t] = h}) <= 1
        /\ \A t \in Threads : (pc[t] = "tx" /\ th[t] = h) => inner[h].lock = t

\* One thread holds a transaction while another is inside begin_tx on the
\* same handle.
C4_Witness ==
    \E t, u \in Threads :
        /\ t # u
        /\ pc[t] = "tx"
        /\ pc[u] = "begin"
        /\ th[t] = th[u]

\* C5: while one handle is open on the directory no other handle gets open,
\* and an open that failed with DatabaseOpened has done no bootstrap and no
\* replay.
C5_SecondOpenFails ==
    /\ \A h \in Handles : hstate[h].ret = "DatabaseOpened" => ~boot[h]
    /\ \A h1, h2 \in Handles :
          (h1 # h2 /\ hstate[h1].st = "open") =>
              (hstate[h2].st # "open" /\ ~boot[h2])

\* With one handle open and transactions in the log, an open on another
\* handle has failed with DatabaseOpened.
C5_Witness ==
    \E h1, h2 \in Handles :
        /\ h1 # h2
        /\ hstate[h1].st = "open"
        /\ hstate[h2] = HFailed
        /\ mlog # <<>>

\* C17: with_auto_commit ends the transaction it began exactly once before
\* it returns, by commit_tx when the closure returned Ok and by rollback_tx
\* when it returned Err; whatever the outcome of the commit, the thread holds
\* no transaction and no datastore lock once the helper has returned.
C17_AutoCommitEndsTxOnce ==
    \A t \in Threads :
        (scope[t].fn = "with_auto_commit" /\ scope[t].st = "returned") =>
            /\ Len(scope[t].ended) = 1
            /\ scope[t].fres.tag = "Ok" => scope[t].ended = <<"commit_tx">>
            /\ scope[t].fres.tag = "Err" => scope[t].ended = <<"rollback_tx">>
            /\ pc[t] = "idle"
            /\ tx_id[t] = 0
            /\ \A h \in Handles : inner[h].lock # t

\* with_auto_commit has returned after a closure that wrote and returned Ok
\* and a commit that failed.
C17_Witness ==
    \E t \in Threads :
        /\ scope[t].fn = "with_auto_commit"
        /\ scope[t].st = "returned"
        /\ scope[t].fres.tag = "Ok"
        /\ scope[t].wrote # {}
        /\ scope[t].ret = Err("DBError")

\* C18: with_read_only rolls its transaction back whatever the closure
\* returns: it ends with rollback_tx, the state visible afterwards is the one
\* visible when the transaction began, the commit log never holds the
\* transaction, and the helper returns the closure's result.
C18_ReadOnlyAlwaysRollsBack ==
    \A t \in Threads :
        (scope[t].fn = "with_read_only" /\ scope[t].st = "returned") =>
            /\ scope[t].ended = <<"rollback_tx">>
            /\ scope[t].clean
            /\ \A i \in 1 .. Len(mlog) : mlog[i].id # scope[t].tid
            /\ scope[t].ret = scope[t].fres
            /\ pc[t] = "idle"

\* with_read_only has returned Ok after a closure that inserted a row.
C18_Witness ==
    \E t \in Threads :
        /\ scope[t].fn = "with_read_only"
        /\ scope[t].st = "returned"
        /\ scope[t].fres.tag = "Ok"
        /\ "insert" \in scope[t].wrote

\* C40: with disk storage, what is visible to a later begin_tx was put
\* there by transactions that are in the commit log: once no commit_tx is
\* under way, every visible table and row was written by a transaction of
\* the log, so a transaction whose append_tx failed, and whose commit_tx
\* returned the error, has left nothing visible.
C40_VisibleImpliesLogged ==
    \A h \in Handles :
        (hstate[h].st = "open" /\ \A t \in Threads : pc[t] # "append") =>
            /\ \A id \in inner[h].committed.tables :
                  \E i \in 1 .. Len(mlog) : id \in mlog[i].data.ins_t
            /\ \A id \in TableIds : \A row \in inner[h].committed.rows[id] :
                  \E i \in 1 .. Len(mlog) : row \in mlog[i].data.ins[id]

\* ------------------------------------------------------------------------
\* The locking datastore's catalog: system tables, indexes, sequences and
\* constraints (crates/core/src/db/datastore), with the table definitions
\* and rows of the tests of relational_db.rs
\* ------------------------------------------------------------------------

\* Table ids handed out by create_table are 1 .. MaxCatTables.
MaxCatTables == 1
\* A sequence generates at most MaxSeqValues values between two restarts.
MaxSeqValues == 2
\* The database is opened at most MaxOpens times.
MaxOpens == 2
\* At most MaxCommits transactions are committed.
MaxCommits == 2

\* The size of a sequence's preallocation block.
SEQUENCE_PREALLOCATION_AMOUNT == 4096

\* IndexDef, SequenceDef::for_column, ConstraintDef::for_column.
IndexDef(cols, is_unique) == [cols |-> cols, is_unique |-> is_unique]
ConstraintDef(col, kind) == [col |-> col, kind |-> kind]

\* The TableDefs the tests create, and the rows they insert into each.
TableDef(name) ==
    CASE name = "from_product" ->
            [indexes |-> {}, sequences |-> {}, constraints |-> {},
             inputs |-> {<<-1>>, <<0>>, <<1>>}]
      [] name = "table_indexed(false)" ->
            [indexes |-> {IndexDef(<<0>>, FALSE)}, sequences |-> {}, constraints |-> {},
             inputs |-> {<<-1>>, <<0>>, <<1>>}]
      [] name = "table_indexed(true)" ->
            [indexes |-> {IndexDef(<<0>>, TRUE)}, sequences |-> {}, constraints |-> {},
             inputs |-> {<<0>>, <<1>>}]
      [] name = "table_auto_inc" ->
            [indexes |-> {}, sequences |-> {},
             constraints |-> {ConstraintDef(0, "primary_key_auto")},
             inputs |-> {<<0>>, <<5>>}]
      [] name = "with_sequences" ->
            [indexes |-> {}, sequences |-> {0}, constraints |-> {},
             inputs |-> {<<0>>}]
      [] name = "identity" ->
            [indexes |-> {IndexDef(<<0>>, TRUE)}, sequences |-> {},
             constraints |-> {ConstraintDef(0, "identity")},
             inputs |-> {<<0>>, <<6>>}]
      [] name = "multi_column_index" ->
            [indexes |-> {IndexDef(<<0, 1>>, FALSE)}, sequences |-> {}, constraints |-> {},
             inputs |-> {<<0, 0, 1>>, <<0, 1, 2>>, <<1, 2, 2>>}]
      [] name = "cascade_drop_table" ->
            [indexes |-> {IndexDef(<<0>>, TRUE), IndexDef(<<2>>, FALSE), IndexDef(<<3>>, TRUE)},
             sequences |-> {0},
             constraints |-> {ConstraintDef(1, "indexed")},
             inputs |-> {}]

TableDefNames ==
    {"from_product", "table_indexed(false)", "table_indexed(true)", "table_auto_inc",
     "with_sequences", "identity", "multi_column_index", "cascade_drop_table"}

CatTableIds == 1 .. MaxCatTables

\* Constraint kinds: which ask for an index, a unique one, an auto-sequence.
Constraints_is_indexed(kind) ==
    kind \in {"indexed", "unique", "primary_key", "primary_key_auto", "identity"}
Constraints_is_unique(kind) ==
    kind \in {"unique", "primary_key", "primary_key_auto", "identity"}
Constraints_is_autoinc(kind) ==
    kind \in {"primary_key_auto", "identity"}

\* The in-memory state of the datastore: the catalog relations st_table,
\* st_indexes, st_sequences and st_constraints, the rows of the user tables,
\* and the derived state: the entries of the indexes and the next value of
\* each sequence.
EmptyCat ==
    [st_table |-> {}, st_indexes |-> {}, st_sequences |-> {}, st_constraints |-> {},
     rows |-> {}, idx |-> {}, seq |-> {}]

EmptyCatTx == [ins |-> {}, del |-> {}]

\* A MutTx records an insert (a delete) of `row` in relation `rel`.
CatTx_insert(tx, rel, row) ==
    IF <<rel, row>> \in tx.del
    THEN [tx EXCEPT !.del = @ \ {<<rel, row>>}]
    ELSE [tx EXCEPT !.ins = @ \cup {<<rel, row>>}]
CatTx_delete(tx, rel, row) ==
    IF <<rel, row>> \in tx.ins
    THEN [tx EXCEPT !.ins = @ \ {<<rel, row>>}]
    ELSE [tx EXCEPT !.del = @ \cup {<<rel, row>>}]

RECURSIVE CatTx_insert_all(_, _, _)
CatTx_insert_all(tx, rel, rows) ==
    IF rows = {} THEN tx
    ELSE LET r == CHOOSE r \in rows : TRUE
         IN CatTx_insert_all(CatTx_insert(tx, rel, r), rel, rows \ {r})
RECURSIVE CatTx_delete_all(_, _, _)
CatTx_delete_all(tx, rel, rows) ==
    IF rows = {} THEN tx
    ELSE LET r == CHOOSE r \in rows : TRUE
         IN CatTx_delete_all(CatTx_delete(tx, rel, r), rel, rows \ {r})

\* The projection of a row onto columns (ColIds count from 0).
Project(row, cols) == [i \in 1 .. Len(cols) |-> row[cols[i] + 1]]

\* An index key made of the first indexed column alone.
index_key_of_first_col(row, cols) == Project(row, <<cols[1]>>)

\* The key under which an index on `cols` holds `row`.
index_key(row, cols) == Project(row, cols)

\* The index entries of `row` for the indexes `ixs` (rows of st_indexes).
IndexEntries(ixs, id, row) ==
    {[table_id |-> id, cols |-> ix.cols, key |-> index_key(row, ix.cols), row |-> row] :
        ix \in {x \in ixs : x.table_id = id}}

\* create_table: a table id is taken, st_table gets the table's row, and
\* st_indexes, st_sequences and st_constraints get a row for each index,
\* sequence and constraint of the definition; a constraint that asks for an
\* index or an auto-sequence gets one.
MutTx_create_table(C, tx, id, name) ==
    LET def == TableDef(name)
        ixs == {[table_id |-> id, cols |-> ix.cols, is_unique |-> ix.is_unique] :
                    ix \in def.indexes}
               \cup {[table_id |-> id, cols |-> <<c.col>>,
                      is_unique |-> Constraints_is_unique(c.kind)] :
                        c \in {x \in def.constraints : Constraints_is_indexed(x.kind)}}
        seqcols == def.sequences
                   \cup {c.col : c \in {x \in def.constraints : Constraints_is_autoinc(x.kind)}}
        sqs == {[table_id |-> id, col |-> c, start |-> 1, increment |-> 1, allocated |-> 0] :
                    c \in seqcols}
        cns == {[table_id |-> id, col |-> c.col, kind |-> c.kind] : c \in def.constraints}
        trow == [table_id |-> id, table_name |-> name, schema |-> name]
    IN [cat |-> [C EXCEPT !.st_table = @ \cup {trow},
                          !.st_indexes = @ \cup ixs,
                          !.st_sequences = @ \cup sqs,
                          !.st_constraints = @ \cup cns,
                          !.seq = @ \cup {[table_id |-> id, col |-> c, value |-> 1] : c \in seqcols}],
        tx |-> CatTx_insert_all(CatTx_insert_all(CatTx_insert_all(
                   CatTx_insert(tx, "st_table", trow),
                   "st_indexes", ixs), "st_sequences", sqs), "st_constraints", cns),
        ret |-> Ok(id)]

\* A rename_table that inserts the row of the new name and leaves the row of
\* the old name in st_table.
MutTx_rename_table_keeps_old_row(C, tx, id, new_name) ==
    IF ~\E t \in C.st_table : t.table_id = id
    THEN [cat |-> C, tx |-> tx, ret |-> Err("TableNotFound")]
    ELSE LET old == CHOOSE t \in C.st_table : t.table_id = id
             new == [old EXCEPT !.table_name = new_name]
         IN [cat |-> [C EXCEPT !.st_table = @ \cup {new}],
             tx |-> CatTx_insert(tx, "st_table", new),
             ret |-> Ok("unit")]

\* rename_table_mut_tx: the st_table row of the table is deleted and a row
\* with the new name inserted; nothing else is touched. An unknown table is
\* an error.
MutTx_rename_table(C, tx, id, new_name) ==
    IF ~\E t \in C.st_table : t.table_id = id
    THEN [cat |-> C, tx |-> tx, ret |-> Err("TableNotFound")]
    ELSE LET old == CHOOSE t \in C.st_table : t.table_id = id
             new == [old EXCEPT !.table_name = new_name]
         IN [cat |-> [C EXCEPT !.st_table = (@ \ {old}) \cup {new}],
             tx |-> CatTx_insert(CatTx_delete(tx, "st_table", old), "st_table", new),
             ret |-> Ok("unit")]

\* table_name_from_id_mut_tx
MutTx_table_name_from_id(C, id) ==
    IF \E t \in C.st_table : t.table_id = id
    THEN Some((CHOOSE t \in C.st_table : t.table_id = id).table_name)
    ELSE None

\* A drop_table that forgets the sequences of the table.
DropCascade_without_sequences == {"st_indexes", "st_constraints"}

\* The catalog relations drop_table clears of the table's rows.
DropCascade == {"st_indexes", "st_sequences", "st_constraints"}

\* drop_table deletes the rows of st_indexes, st_sequences and st_constraints
\* whose table_id matches, then the table: its rows and its st_table row.
MutTx_drop_table(C, tx, id) ==
    IF ~\E t \in C.st_table : t.table_id = id
    THEN [cat |-> C, tx |-> tx, ret |-> Err("TableNotFound")]
    ELSE LET Of(rel) == {r \in rel : r.table_id = id}
             Cascaded(name, rel) == IF name \in DropCascade THEN Of(rel) ELSE {}
         IN [cat |-> [C EXCEPT !.st_table = @ \ Of(@),
                               !.st_indexes = @ \ Cascaded("st_indexes", @),
                               !.st_sequences = @ \ Cascaded("st_sequences", @),
                               !.st_constraints = @ \ Cascaded("st_constraints", @),
                               !.rows = @ \ Of(@),
                               !.idx = @ \ Of(@),
                               !.seq = @ \ Of(@)],
             tx |-> CatTx_delete_all(CatTx_delete_all(CatTx_delete_all(CatTx_delete_all(
                        CatTx_delete_all(tx, "st_indexes", Cascaded("st_indexes", C.st_indexes)),
                        "st_sequences", Cascaded("st_sequences", C.st_sequences)),
                        "st_constraints", Cascaded("st_constraints", C.st_constraints)),
                        "rows", Of(C.rows)),
                        "st_table", Of(C.st_table)),
             ret |-> Ok("unit")]

\* get_next_sequence_value: the sequence hands out its value and steps; when
\* the value has reached the allocated mark, a block of
\* SEQUENCE_PREALLOCATION_AMOUNT values is allocated first and the new mark
\* written to st_sequences.
MutTx_get_next_sequence_value(C, tx, id, col) ==
    LET s == CHOOSE s \in C.st_sequences : s.table_id = id /\ s.col = col
        q == CHOOSE q \in C.seq : q.table_id = id /\ q.col = col
        s2 == IF q.value = s.allocated + 1
              THEN [s EXCEPT !.allocated = q.value + SEQUENCE_PREALLOCATION_AMOUNT * s.increment]
              ELSE s
    IN [cat |-> [C EXCEPT !.st_sequences = (@ \ {s}) \cup {s2},
                          !.seq = (@ \ {q}) \cup {[q EXCEPT !.value = @ + s.increment]}],
        tx |-> IF s2 = s THEN tx
               ELSE CatTx_insert(CatTx_delete(tx, "st_sequences", s), "st_sequences", s2),
        val |-> q.value]

\* A probe that never finds a row, and an insert that draws from the
\* table's sequences whatever the supplied value.
unique_probe_never_hits(C, id, cand) == FALSE
sequences_to_draw_on_any_value(C, id, row) ==
    {s \in C.st_sequences : s.table_id = id}

\* The probe of the unique indexes of the table with a candidate row.
unique_probe(C, id, cand) ==
    \E ix \in C.st_indexes :
        /\ ix.table_id = id
        /\ ix.is_unique
        /\ \E e \in C.idx :
              /\ e.table_id = id
              /\ e.cols = ix.cols
              /\ e.key = Project(cand, ix.cols)

\* The sequences of the table an insert of `row` draws a value from: those
\* on a column where the row supplies zero.
sequences_to_draw(C, id, row) ==
    {s \in C.st_sequences : s.table_id = id /\ row[s.col + 1] = 0}

\* insert: a zero in a column with a sequence is replaced by the sequence's
\* next value; every unique index is probed with the candidate row and a hit
\* fails the insert; the row is stored and entered into every index.
\* `drawn` holds the sequence value the insert drew, if it drew one.
MutTx_insert(C, tx, id, row) ==
    IF ~\E t \in C.st_table : t.table_id = id
    THEN [cat |-> C, tx |-> tx, drawn |-> {}, ret |-> Err("TableNotFound")]
    ELSE LET seqs == sequences_to_draw(C, id, row)
             g == IF seqs = {} THEN [cat |-> C, tx |-> tx, val |-> 0]
                  ELSE MutTx_get_next_sequence_value(C, tx, id, (CHOOSE s \in seqs : TRUE).col)
             cand == IF seqs = {} THEN row
                     ELSE [row EXCEPT ![(CHOOSE s \in seqs : TRUE).col + 1] = g.val]
             hit == unique_probe(g.cat, id, cand)
             stored == [table_id |-> id, row |-> cand]
             drawn == IF seqs = {} THEN {} ELSE {g.val}
         IN IF hit
            THEN [cat |-> g.cat, tx |-> g.tx, drawn |-> drawn,
                  ret |-> Err("UniqueConstraintViolation")]
            ELSE [cat |-> [g.cat EXCEPT !.rows = @ \cup {stored},
                                        !.idx = @ \cup IndexEntries(g.cat.st_indexes, id, cand)],
                  tx |-> IF stored \in g.cat.rows THEN g.tx
                         ELSE CatTx_insert(g.tx, "rows", stored),
                  drawn |-> drawn,
                  ret |-> Ok(cand)]

\* A range that leaves out its lower bound.
Range_contains_above_lo(range, v) == v > range.lo /\ (range.bounded => v <= range.hi)

\* A range of column values: from `lo` on, up to `hi` when bounded.
RangeFrom(lo) == [lo |-> lo, bounded |-> FALSE, hi |-> lo]
RangeTo(lo, hi) == [lo |-> lo, bounded |-> TRUE, hi |-> hi]
Range_contains(range, v) == v >= range.lo /\ (range.bounded => v <= range.hi)

\* An index of the table on exactly `cols`.
index_on(ix, id, cols) == ix.table_id = id /\ ix.cols = cols

\* iter_by_col_eq: through the index on exactly `cols` when there is one,
\* by a scan of the table otherwise.
MutTx_iter_by_col_eq(C, id, cols, value) ==
    IF ~\E t \in C.st_table : t.table_id = id
    THEN Err("TableNotFound")
    ELSE IF \E ix \in C.st_indexes : index_on(ix, id, cols)
         THEN Ok([via |-> "Index",
                  rows |-> {e.row : e \in {x \in C.idx :
                               x.table_id = id /\ x.cols = cols /\ x.key = value}}])
         ELSE Ok([via |-> "Scan",
                  rows |-> {r.row : r \in {x \in C.rows :
                               x.table_id = id /\ Project(x.row, cols) = value}}])

\* iter_by_col_range: likewise, for the values of one column within a range.
MutTx_iter_by_col_range(C, id, col, range) ==
    IF ~\E t \in C.st_table : t.table_id = id
    THEN Err("TableNotFound")
    ELSE IF \E ix \in C.st_indexes : index_on(ix, id, <<col>>)
         THEN Ok([via |-> "Index",
                  rows |-> {e.row : e \in {x \in C.idx :
                               /\ x.table_id = id
                               /\ x.cols = <<col>>
                               /\ Range_contains(range, x.key[1])}}])
         ELSE Ok([via |-> "Scan",
                  rows |-> {r.row : r \in {x \in C.rows :
                               x.table_id = id /\ Range_contains(range, x.row[col + 1])}}])

\* Replay: each logged transaction's deletes and inserts are applied to the
\* relations directly; then the derived state is rebuilt: the entries of
\* every index of st_indexes, and each sequence's next value from its
\* allocated mark.
RECURSIVE Cat_apply_log(_, _)
Cat_apply_log(C, log) ==
    IF log = <<>> THEN C
    ELSE LET t == Head(log)
             Rel(name, old) ==
                 (old \ {p[2] : p \in {x \in t.del : x[1] = name}})
                     \cup {p[2] : p \in {x \in t.ins : x[1] = name}}
         IN Cat_apply_log([C EXCEPT !.st_table = Rel("st_table", @),
                                    !.st_indexes = Rel("st_indexes", @),
                                    !.st_sequences = Rel("st_sequences", @),
                                    !.st_constraints = Rel("st_constraints", @),
                                    !.rows = Rel("rows", @)],
                          Tail(log))

\* A rebuild that restarts every sequence from its start value.
Cat_rebuild_sequence_from_start(s) ==
    [table_id |-> s.table_id, col |-> s.col, value |-> s.start]

\* The next value of a sequence after a restart.
Cat_rebuild_sequence(s) ==
    [table_id |-> s.table_id, col |-> s.col, value |-> s.allocated + 1]

Cat_rebuild(C) ==
    [C EXCEPT !.idx = UNION {IndexEntries(C.st_indexes, r.table_id, r.row) : r \in C.rows},
              !.seq = {Cat_rebuild_sequence(s) : s \in C.st_sequences}]

Cat_replay(log) == Cat_rebuild(Cat_apply_log(EmptyCat, log))

\* RelationalDB::iter_by_col_eq and iter_by_col_range
iter_by_col_eq(C, id, cols, value) == MutTx_iter_by_col_eq(C, id, cols, value)
iter_by_col_range(C, id, col, range) == MutTx_iter_by_col_range(C, id, col, range)

\* RelationalDB::rename_table, table_name_from_id
rename_table(C, tx, id, new_name) == MutTx_rename_table(C, tx, id, new_name)
table_name_from_id(C, id) == MutTx_table_name_from_id(C, id)

\* ------------------------------------------------------------------------
\* SpecCatalog: one handle whose transactions create and drop the tables of
\* the tests, insert their rows, query them, commit, and close and reopen
\* ------------------------------------------------------------------------

\* cat.gen (history): the values each sequence has generated, with the
\* number of the open during which it did.
CatInit ==
    [st |-> "open", db |-> EmptyCat, tx |-> EmptyCatTx, next_id |-> 1,
     opens |-> 1, commits |-> 0, gen |-> {}]

CatNoRet == [op |-> "none", arg |-> <<>>, ret |-> Ok("unit")]

\* The definition a table was created with.
CatDefOf(C, id) == TableDef((CHOOSE t \in C.st_table : t.table_id = id).schema)
CatExists(C, id) == \E t \in C.st_table : t.table_id = id

\* The columns and values the queries of the tests ask for.
CatEqQueries == {[cols |-> <<0>>, value |-> <<1>>], [cols |-> <<0, 1>>, value |-> <<0, 1>>]}
CatRanges == {RangeFrom(0), RangeTo(-1, 0)}
\* The name test_rename_table renames its table to.
CatNewNames == {"YourTable"}

CatFrame == UNCHANGED <<omvars, pgvars, tblvars, dbvars, scvars, clvars, encvars, lpvars>>

\* begin_tx
CatBegin ==
    /\ cat.st = "open"
    /\ cat' = [cat EXCEPT !.st = "tx", !.tx = EmptyCatTx]
    /\ cat_ret' = CatNoRet
    /\ UNCHANGED cat_log
    /\ CatFrame

\* create_table(tx, schema)
CatCreateTable(name) ==
    /\ cat.st = "tx"
    /\ cat.next_id <= MaxCatTables
    /\ LET r == MutTx_create_table(cat.db, cat.tx, cat.next_id, name)
       IN /\ cat' = [cat EXCEPT !.db = r.cat, !.tx = r.tx, !.next_id = @ + 1]
          /\ cat_ret' = [op |-> "create_table", arg |-> <<name>>, ret |-> r.ret]
    /\ UNCHANGED cat_log
    /\ CatFrame

\* drop_table(tx, table_id); the result records how many rows of
\* st_indexes, st_sequences and st_constraints the table had.
CatDropTable(id) ==
    /\ cat.st = "tx"
    /\ LET r == MutTx_drop_table(cat.db, cat.tx, id)
           Count(rel) == Cardinality({x \in rel : x.table_id = id})
       IN /\ cat' = [cat EXCEPT !.db = r.cat, !.tx = r.tx]
          /\ cat_ret' = [op |-> "drop_table",
                         arg |-> <<id, Count(cat.db.st_indexes), Count(cat.db.st_sequences),
                                   Count(cat.db.st_constraints)>>,
                         ret |-> r.ret]
    /\ UNCHANGED cat_log
    /\ CatFrame

\* rename_table(tx, table_id, new_name), followed by the
\* table_name_from_id(tx, table_id) of test_rename_table.
CatRenameTable(id, new_name) ==
    /\ cat.st = "tx"
    /\ LET r == rename_table(cat.db, cat.tx, id, new_name)
       IN /\ cat' = [cat EXCEPT !.db = r.cat, !.tx = r.tx]
          /\ cat_ret' = [op |-> "rename_table", arg |-> <<id, new_name>>, ret |-> r.ret]
    /\ UNCHANGED cat_log
    /\ CatFrame

\* insert(tx, table_id, row), with a row of the table's test
CatInsert(id, row) ==
    /\ cat.st = "tx"
    /\ IF CatExists(cat.db, id) THEN row \in CatDefOf(cat.db, id).inputs ELSE row = <<0>>
    /\ LET r == MutTx_insert(cat.db, cat.tx, id, row)
           drew == r.drawn # {}
           now == {g \in cat.gen : g.table_id = id /\ g.epoch = cat.opens}
       IN /\ drew => Cardinality(now) < MaxSeqValues
          /\ cat' = [cat EXCEPT !.db = r.cat, !.tx = r.tx,
                                !.gen = IF drew
                                        THEN @ \cup {[table_id |-> id, value |-> v,
                                                      epoch |-> cat.opens] : v \in r.drawn}
                                        ELSE @]
          /\ cat_ret' = [op |-> "insert", arg |-> <<id, row>>, ret |-> r.ret]
    /\ UNCHANGED cat_log
    /\ CatFrame

\* iter_by_col_eq(tx, table_id, cols, value)
CatIterByColEq(id, q) ==
    /\ cat.st = "tx"
    /\ CatExists(cat.db, id) =>
          \A r \in CatDefOf(cat.db, id).inputs : Len(r) >= Len(q.cols)
    /\ cat_ret' = [op |-> "iter_by_col_eq", arg |-> <<id, q.cols, q.value>>,
                   ret |-> iter_by_col_eq(cat.db, id, q.cols, q.value)]
    /\ UNCHANGED <<cat, cat_log>>
    /\ CatFrame

\* iter_by_col_range(tx, table_id, ColId(0), range)
CatIterByColRange(id, range) ==
    /\ cat.st = "tx"
    /\ cat_ret' = [op |-> "iter_by_col_range", arg |-> <<id, 0, range>>,
                   ret |-> iter_by_col_range(cat.db, id, 0, range)]
    /\ UNCHANGED <<cat, cat_log>>
    /\ CatFrame

\* commit_tx(tx): the transaction's inserts and deletes go to the commit log.
CatCommit ==
    /\ cat.st = "tx"
    /\ cat.commits < MaxCommits
    /\ cat' = [cat EXCEPT !.st = "open", !.tx = EmptyCatTx, !.commits = @ + 1]
    /\ cat_log' = Append(cat_log, cat.tx)
    /\ cat_ret' = [op |-> "commit_tx", arg |-> <<>>, ret |-> Ok("unit")]
    /\ CatFrame

\* drop(stdb): the in-memory state is gone.
CatClose ==
    /\ cat.st = "open"
    /\ cat.opens < MaxOpens
    /\ cat' = [cat EXCEPT !.st = "closed", !.db = EmptyCat]
    /\ cat_ret' = CatNoRet
    /\ UNCHANGED cat_log
    /\ CatFrame

\* open_db on the same directory: the commit log is replayed.
CatOpen ==
    /\ cat.st = "closed"
    /\ cat' = [cat EXCEPT !.st = "open", !.db = Cat_replay(cat_log), !.opens = @ + 1]
    /\ cat_ret' = [op |-> "open", arg |-> <<>>, ret |-> Ok("unit")]
    /\ UNCHANGED cat_log
    /\ CatFrame

\* ------------------------------------------------------------------------
\* Properties of the catalog
\* ------------------------------------------------------------------------

\* A visible row of the table agrees with `cand` on the columns of one of
\* the table's unique indexes.
UniqueClash(C, id, cand) ==
    \E ix \in C.st_indexes :
        /\ ix.table_id = id
        /\ ix.is_unique
        /\ \E r \in C.rows :
              r.table_id = id /\ Project(r.row, ix.cols) = Project(cand, ix.cols)

\* C13: an insert into an existing table whose row (as supplied, when no
\* sequence value is drawn) agrees on the columns of a unique index with a
\* row visible to the transaction fails with UniqueConstraintViolation and
\* leaves the rows as they were; an insert that agrees with no visible row
\* on any unique index succeeds and stores the row.
C13_UniqueIndexRejectsDuplicate ==
    [][\A id \in CatTableIds, name \in TableDefNames :
          \A row \in TableDef(name).inputs :
              (cat_ret'.op = "insert" /\ CatInsert(id, row) /\ CatExists(cat.db, id)) =>
                  LET out == cat_ret'.ret
                      stored == [table_id |-> id, row |-> out.val]
                  IN /\ out.tag = "Err" =>
                           /\ out = Err("UniqueConstraintViolation")
                           /\ cat'.db.rows = cat.db.rows
                     /\ out.tag = "Ok" =>
                           /\ ~UniqueClash(cat.db, id, out.val)
                           /\ cat'.db.rows = cat.db.rows \cup {stored}
                     /\ (cat'.db.seq = cat.db.seq) =>
                           (UniqueClash(cat.db, id, row) <=> out.tag = "Err")]_vars

\* After a reopen, an insert has failed with UniqueConstraintViolation on a
\* row committed before the restart.
C13_Witness ==
    /\ cat_ret.op = "insert"
    /\ cat_ret.ret = Err("UniqueConstraintViolation")
    /\ cat.opens = 2
    /\ cat.db.rows # {}

\* The values the sequence of table `id` generated during open number `e`.
GeneratedIn(id, e) == {g.value : g \in {x \in cat.gen : x.table_id = id /\ x.epoch = e}}

\* C14: sequence values are not reused across a restart: every value a
\* sequence generates after the reopen is above every value it generated
\* before, and lies beyond the preallocated block of 4096 values whose mark
\* was committed; when the value 1 alone was generated before the restart,
\* the first value after it is 4098.
C14_SequenceResumesAfterAllocated ==
    \A id \in CatTableIds :
        (GeneratedIn(id, 1) # {} /\ GeneratedIn(id, 2) # {}) =>
            /\ \A a \in GeneratedIn(id, 1), b \in GeneratedIn(id, 2) : b > a
            /\ \A b \in GeneratedIn(id, 2) : b > 1 + SEQUENCE_PREALLOCATION_AMOUNT
            /\ GeneratedIn(id, 1) = {1} => 4098 \in GeneratedIn(id, 2)
            /\ GeneratedIn(id, 1) = {1} => \A b \in GeneratedIn(id, 2) : b >= 4098

\* The scenario of test_auto_inc_reload: one insert of 0, commit, close,
\* reopen, one more insert of 0; the stored values are 1 and 4098.
C14_Witness ==
    /\ cat.opens = 2
    /\ cat_ret.op = "insert"
    /\ cat_ret.ret = Ok(<<4098>>)
    /\ cat.db.rows = {[table_id |-> 1, row |-> <<1>>], [table_id |-> 1, row |-> <<4098>>]}
    /\ CatExists(cat.db, 1)
    /\ CatDefOf(cat.db, 1) = TableDef("with_sequences")

\* C15: an insert into a table with a sequence on column 0 that supplies 0
\* there stores the row with the sequence's next value instead: 1 for the
\* first such insert after the table's creation, and one more than the last
\* generated value for each later one during the same open; an insert that
\* supplies a non-zero value stores the row as supplied (when it is stored)
\* and leaves the sequence, its allocated mark and the generated values as
\* they were.
C15_ZeroDrawsNextSequenceValue ==
    [][\A id \in CatTableIds, name \in TableDefNames :
          \A row \in TableDef(name).inputs :
              (/\ cat_ret'.op = "insert"
               /\ CatInsert(id, row)
               /\ \E s \in cat.db.st_sequences : s.table_id = id /\ s.col = 0) =>
                  LET out == cat_ret'.ret
                      before == GeneratedIn(id, cat.opens)
                  IN IF row[1] = 0
                     THEN /\ out.tag = "Ok"
                          /\ out.val[1] # 0
                          /\ cat'.db.rows = cat.db.rows \cup {[table_id |-> id, row |-> out.val]}
                          /\ cat'.gen = cat.gen \cup {[table_id |-> id, value |-> out.val[1],
                                                       epoch |-> cat.opens]}
                          /\ (before = {} /\ cat.opens = 1) => out.val[1] = 1
                          /\ before # {} =>
                                \A v \in before : (\A w \in before : w <= v) => out.val[1] = v + 1
                     ELSE /\ out.tag = "Ok" =>
                                /\ out.val = row
                                /\ cat'.db.rows = cat.db.rows \cup {[table_id |-> id, row |-> row]}
                          /\ cat'.db.seq = cat.db.seq
                          /\ cat'.db.st_sequences = cat.db.st_sequences
                          /\ cat'.gen = cat.gen]_vars

\* test_auto_inc and test_auto_inc_disable in one table: a supplied 5 and two
\* supplied zeros have stored 5, 1 and 2.
C15_Witness ==
    /\ cat.opens = 1
    /\ cat_ret.op = "insert"
    /\ cat_ret.ret = Ok(<<2>>)
    /\ cat.db.rows = {[table_id |-> 1, row |-> <<1>>], [table_id |-> 1, row |-> <<2>>],
                      [table_id |-> 1, row |-> <<5>>]}
    /\ GeneratedIn(1, 1) = {1, 2}

\* C16: once drop_table(table_id) has succeeded, the transaction's view of
\* st_indexes, st_sequences and st_constraints holds no row whose table_id
\* is the dropped table's, whatever the table was created with.
C16_DropTableCascades ==
    [][\A id \in CatTableIds :
          (cat_ret'.op = "drop_table" /\ CatDropTable(id) /\ cat_ret'.ret.tag = "Ok") =>
              /\ \A x \in cat'.db.st_indexes : x.table_id # id
              /\ \A x \in cat'.db.st_sequences : x.table_id # id
              /\ \A x \in cat'.db.st_constraints : x.table_id # id]_vars

\* test_cascade_drop_table: a table that had four rows in st_indexes, one in
\* st_sequences and one in st_constraints has been dropped.
C16_Witness ==
    /\ cat_ret.op = "drop_table"
    /\ cat_ret.ret.tag = "Ok"
    /\ cat_ret.arg = <<1, 4, 1, 1>>
    /\ cat.st = "tx"

VisibleRows ==
    (Cat_apply_log(EmptyCat, cat_log).rows
        \ {p[2] : p \in {x \in cat.tx.del : x[1] = "rows"}})
        \cup {p[2] : p \in {x \in cat.tx.ins : x[1] = "rows"}}

\* C20: iter_by_col_range on column 0 of an existing table returns exactly
\* the rows visible to the transaction whose value in that column lies in
\* the range, be they inserted earlier in the same transaction or committed
\* by earlier ones, with or without an index on the column.
C20_IterByColRangeReturnsRowsInRange ==
    [][\A id \in CatTableIds, range \in CatRanges :
          (/\ cat_ret'.op = "iter_by_col_range"
           /\ CatIterByColRange(id, range)
           /\ CatExists(cat.db, id)) =>
              /\ cat_ret'.ret.tag = "Ok"
              /\ cat_ret'.ret.val.rows =
                    {r.row : r \in {x \in VisibleRows :
                        /\ x.table_id = id
                        /\ x.row[1] >= range.lo
                        /\ range.bounded => x.row[1] <= range.hi}}]_vars

\* test_filter_range_pre_commit and _post_commit in one: with -1 and 0
\* committed by an earlier transaction and 1 inserted in this one, the range
\* 0.. has yielded 0 and 1.
C20_Witness ==
    /\ cat_ret.op = "iter_by_col_range"
    /\ cat_ret.arg = <<1, 0, RangeFrom(0)>>
    /\ cat_ret.ret.tag = "Ok"
    /\ cat_ret.ret.val.rows = {<<0>>, <<1>>}
    /\ cat.db.rows = {[table_id |-> 1, row |-> <<-1>>], [table_id |-> 1, row |-> <<0>>],
                      [table_id |-> 1, row |-> <<1>>]}
    /\ cat.tx.ins = {<<"rows", [table_id |-> 1, row |-> <<1>>]>>}
    /\ cat.commits >= 1

\* C21: rename_table(table_id, new_name) changes only the st_table entry of
\* the table: afterwards table_name_from_id(table_id) is new_name, st_table
\* holds exactly one row for table_id, and the rows, the indexes and the
\* other catalog rows are what they were.
C21_RenameTouchesOnlyStTable ==
    [][(cat_ret'.op = "rename_table" /\ cat_ret'.ret.tag = "Ok") =>
          LET id == cat_ret'.arg[1]
              new_name == cat_ret'.arg[2]
              Others(rel) == {t \in rel : t.table_id # id}
          IN /\ table_name_from_id(cat'.db, id) = Some(new_name)
             /\ Cardinality({t \in cat'.db.st_table : t.table_id = id}) = 1
             /\ Others(cat'.db.st_table) = Others(cat.db.st_table)
             /\ CatDefOf(cat'.db, id) = CatDefOf(cat.db, id)
             /\ \A rel \in {"st_indexes", "st_sequences", "st_constraints",
                              "rows", "idx", "seq"} : cat'.db[rel] = cat.db[rel]
             /\ \A w \in (cat'.tx.ins \cup cat'.tx.del) \ (cat.tx.ins \cup cat.tx.del) :
                    w[1] = "st_table"]_vars

\* A table created under another name, with an index and a row in it, has
\* just been renamed.
C21_Witness ==
    /\ cat_ret.op = "rename_table"
    /\ cat_ret.ret.tag = "Ok"
    /\ table_name_from_id(cat.db, cat_ret.arg[1]) = Some(cat_ret.arg[2])
    /\ \E r \in cat.db.rows : r.table_id = cat_ret.arg[1]
    /\ \E ix \in cat.db.st_indexes : ix.table_id = cat_ret.arg[1]

\* ------------------------------------------------------------------------
\* The commit log across restarts (RelationalDB::open, lines 88-152, over
\* the CommitLog of crates/core/src/db/commit_log.rs)
\* ------------------------------------------------------------------------

\* A commit holds at most MaxTxPerCommit transactions and the log at most
\* MaxLogCommits commits.
MaxTxPerCommit == 2
MaxLogCommits == 3

\* What a transaction of the log carries.
TxPayloads == {"a", "b"}

\* Commit { parent_commit_hash, commit_offset, min_tx_offset, transactions }
Commit(parent_commit_hash, commit_offset, min_tx_offset, transactions) ==
    [parent_commit_hash |-> parent_commit_hash, commit_offset |-> commit_offset,
     min_tx_offset |-> min_tx_offset, transactions |-> transactions]

\* The hash of a commit: distinct commits have distinct hashes.
hash_commit(commit) == [hash_of |-> commit]

\* The loop of RelationalDB::open over commit_log::Iter: for each commit of
\* the log, in order, last_hash and last_commit_offset are assigned and
\* transaction_offset counts its transactions.
RECURSIVE open_replay(_, _)
open_replay(locals, commits) ==
    IF commits = <<>>
    THEN locals
    ELSE LET commit == Head(commits) IN
         open_replay([last_hash |-> commit.parent_commit_hash,
                      last_commit_offset |-> Some(commit.commit_offset),
                      transaction_offset |-> locals.transaction_offset + Len(commit.transactions)],
                     Tail(commits))

\* The unwritten commit RelationalDB::open hands to CommitLog::new.
open_unwritten_commit(message_log) ==
    LET r == open_replay([last_hash |-> None, last_commit_offset |-> None,
                          transaction_offset |-> 0], message_log)
        commit_offset == IF r.last_commit_offset.tag = "Some"
                         THEN r.last_commit_offset.val + 1
                         ELSE 0
    IN Commit(r.last_hash, commit_offset, r.transaction_offset, <<>>)

\* CommitLog::append_tx: the transaction is staged into the unwritten commit;
\* on a flush the commit is written to the log and the next unwritten commit
\* records its hash as parent and follows it in offset.
CommitLog_append_tx(log, unwritten, tx, flush) ==
    LET staged == [unwritten EXCEPT !.transactions = Append(@, tx)] IN
    IF flush
    THEN [log |-> Append(log, staged),
          unwritten |-> Commit(Some(hash_commit(staged)), staged.commit_offset + 1,
                               staged.min_tx_offset + Len(staged.transactions), <<>>)]
    ELSE [log |-> log, unwritten |-> staged]

\* The transactions of the commits of a log, in the order of the log.
RECURSIVE LogTransactions(_)
LogTransactions(commits) ==
    IF commits = <<>> THEN <<>>
    ELSE Head(commits).transactions \o LogTransactions(Tail(commits))

\* Where reading the log or replaying it fails during an open: at the read
\* of commit number `commit` (tx = 0) or at the replay of its transaction
\* number `tx`; NoFault when nothing fails.
NoFault == [kind |-> "none", commit |-> 0, tx |-> 0]
CommitFault(i) == [kind |-> "commit", commit |-> i, tx |-> 0]
ReplayFault(i, j) == [kind |-> "replay_transaction", commit |-> i, tx |-> j]
OpenFaults(log) ==
    {NoFault} \cup {CommitFault(i) : i \in 1..Len(log)}
              \cup UNION {{ReplayFault(i, j) : j \in 1..Len(log[i].transactions)} :
                          i \in 1..Len(log)}

\* The replay loop of RelationalDB::open with its early returns: `commit?`
\* on a commit that cannot be read and `replay_transaction(..)?` on a
\* transaction that cannot be replayed. `replayed` are the transactions
\* handed to the datastore so far, idx the number of the commit at hand.
RECURSIVE open_loop(_, _, _, _)
open_loop(replayed, commits, idx, fault) ==
    IF commits = <<>>
    THEN [ret |-> Ok("unit"), replayed |-> replayed]
    ELSE LET txs == Head(commits).transactions IN
         IF fault.commit = idx /\ fault.tx = 0
         THEN [ret |-> Err(fault), replayed |-> replayed]
         ELSE IF fault.commit = idx
         THEN [ret |-> Err(fault), replayed |-> replayed \o SubSeq(txs, 1, fault.tx - 1)]
         ELSE open_loop(replayed \o txs, Tail(commits), idx + 1, fault)

\* The handle right after RelationalDB::open on a directory whose message
\* log is `log`; fresh holds until the first append_tx. lock tells whether
\* db.lock is held, ret is what the open returned and replayed the
\* transactions it handed to the datastore.
ClOpened(log) ==
    [st |-> "open", log |-> log, unwritten |-> open_unwritten_commit(log), fresh |-> TRUE,
     lock |-> TRUE, ret |-> Ok("RelationalDB"), replayed |-> LogTransactions(log)]

\* No handle: what an open that returns an error leaves, with db.lock held
\* or not.
ClNoHandle(log, lock, ret, replayed) ==
    [st |-> "closed", log |-> log, unwritten |-> Commit(None, 0, 0, <<>>), fresh |-> FALSE,
     lock |-> lock, ret |-> ret, replayed |-> replayed]

DatabaseOpened == [kind |-> "DatabaseOpened", commit |-> 0, tx |-> 0]

\* A faulty variant of RelationalDB::open, which keeps db.lock locked when
\* the replay fails.
RelationalDB_open_keeps_lock(lock, log, fault) ==
    IF lock
    THEN ClNoHandle(log, lock, Err(DatabaseOpened), <<>>)
    ELSE LET r == open_loop(<<>>, log, 1, fault) IN
         IF r.ret.tag = "Err"
         THEN ClNoHandle(log, TRUE, r.ret, r.replayed)
         ELSE ClOpened(log)

\* RelationalDB::open on a directory whose db.lock is locked or not and whose
\* message log is `log`: try_lock_exclusive (DatabaseOpened when it is
\* held), then the replay loop. On an early return the File `lock` is
\* dropped, which unlocks db.lock; on success it is kept in the handle.
RelationalDB_open(lock, log, fault) ==
    IF lock
    THEN ClNoHandle(log, lock, Err(DatabaseOpened), <<>>)
    ELSE LET r == open_loop(<<>>, log, 1, fault) IN
         IF r.ret.tag = "Err"
         THEN ClNoHandle(log, FALSE, r.ret, r.replayed)
         ELSE ClOpened(log)

ClFrame == UNCHANGED <<omvars, pgvars, tblvars, dbvars, scvars, catvars, encvars, lpvars>>

\* commit_tx: commit_log.append_tx(&tx_data, &self.inner), flushing or not
\* as the fsync policy and the commit's size decide.
ClAppendTx(tx, flush) ==
    /\ clog.st = "open"
    /\ Len(clog.unwritten.transactions) < MaxTxPerCommit
    /\ flush \/ Len(clog.unwritten.transactions) + 1 < MaxTxPerCommit
    /\ Len(clog.log) < MaxLogCommits
    /\ LET r == CommitLog_append_tx(clog.log, clog.unwritten, tx, flush)
       IN clog' = [clog EXCEPT !.log = r.log, !.unwritten = r.unwritten, !.fresh = FALSE]
    /\ ClFrame

\* The handle is dropped: what was staged and not flushed is gone.
ClClose ==
    /\ clog.st = "open"
    /\ clog' = [clog EXCEPT !.st = "closed", !.unwritten = Commit(None, 0, 0, <<>>),
                            !.fresh = FALSE, !.lock = FALSE]
    /\ ClFrame

\* RelationalDB::open on the directory; the fault is where the log or the
\* replay fails this time, if anywhere.
ClOpen(fault) ==
    /\ clog.st = "closed"
    /\ clog' = RelationalDB_open(clog.lock, clog.log, fault)
    /\ ClFrame

\* C23: the parent-hash chain continues across a restart: after open has
\* replayed a non-empty log, the unwritten commit it prepares records as
\* parent_commit_hash the hash of the last commit of the log and as
\* commit_offset that commit's offset plus 1; after an empty log it records
\* no parent and offset 0.
C23_OpenContinuesParentChain ==
    (clog.st = "open" /\ clog.fresh) =>
        IF clog.log = <<>>
        THEN /\ clog.unwritten.parent_commit_hash = None
             /\ clog.unwritten.commit_offset = 0
        ELSE LET last == clog.log[Len(clog.log)] IN
             /\ clog.unwritten.parent_commit_hash = Some(hash_commit(last))
             /\ clog.unwritten.commit_offset = last.commit_offset + 1

\* The transactions of the log that come before the place of a fault.
BeforeFault(log, fault) ==
    LogTransactions(SubSeq(log, 1, fault.commit - 1)) \o
        (IF fault.tx = 0 THEN <<>>
         ELSE SubSeq(log[fault.commit].transactions, 1, fault.tx - 1))

\* C38: replay errors abort startup: when reading a commit of the log or
\* replaying a transaction fails, RelationalDB::open returns that error,
\* produces no handle, has replayed the transactions before the failure
\* and none after it, and leaves db.lock unlocked; no open on a directory
\* without a handle is rejected with DatabaseOpened.
C38_ReplayErrorAbortsOpen ==
    [][\A fault \in OpenFaults(clog.log) :
          ClOpen(fault) =>
              /\ clog'.ret.tag = "Err" <=> fault # NoFault
              /\ fault # NoFault =>
                    /\ clog'.ret.val = fault
                    /\ clog'.st = "closed"
                    /\ clog'.replayed = BeforeFault(clog.log, fault)
                    /\ ~clog'.lock]_vars

\* An open has failed on a transaction that is neither the first nor the
\* last of the log: some transactions were replayed, others were not, there
\* is no handle and db.lock is unlocked.
C38_Witness ==
    /\ clog.st = "closed"
    /\ clog.ret.tag = "Err"
    /\ clog.ret.val.kind = "replay_transaction"
    /\ clog.replayed # <<>>
    /\ Len(clog.replayed) + 1 < Len(LogTransactions(clog.log))
    /\ ~clog.lock

\* ------------------------------------------------------------------------
\* The flat encoding of values (crates/sats/src/flat/mod.rs)
\* ------------------------------------------------------------------------

\* AlgebraicType: a record with its kind; a Sum has variants, a Product has
\* elements, an Array has elem_ty, a Map has key_ty and ty.
Prim(kind) == [kind |-> kind]
SumTy(variants) == [kind |-> "Sum", variants |-> variants]
ProductTy(elements) == [kind |-> "Product", elements |-> elements]
ArrayTy(elem_ty) == [kind |-> "Array", elem_ty |-> elem_ty]
MapTy(key_ty, ty) == [kind |-> "Map", key_ty |-> key_ty, ty |-> ty]

\* AlgebraicValue: a builtin integer, a bool, a SumValue { tag, value } or a
\* ProductValue { elements }.
BuiltinVal(kind, v) == [kind |-> kind, v |-> v]
BoolVal(b) == [kind |-> "Bool", b |-> b]
SumVal(tag, value) == [kind |-> "Sum", tag |-> tag, value |-> value]
ProductVal(elements) == [kind |-> "Product", elements |-> elements]

\* core::mem::size_of of the primitive behind a kind (Ref is stored as a u32).
size_of(kind) ==
    CASE kind \in {"Bool", "I8", "U8"} -> 1
      [] kind \in {"I16", "U16"} -> 2
      [] kind \in {"I32", "U32", "F32", "Ref"} -> 4
      [] kind \in {"I64", "U64", "F64"} -> 8
      [] kind \in {"I128", "U128"} -> 16

RECURSIVE fixed_size_of(_)
RECURSIVE fixed_size_sum(_)
RECURSIVE fixed_size_max(_)

\* ProductType::fixed_size_of: elements.iter().map(fixed_size_of).sum()
fixed_size_sum(tys) ==
    IF tys = <<>> THEN 0 ELSE fixed_size_of(Head(tys)) + fixed_size_sum(Tail(tys))

\* variants.iter().map(fixed_size_of).max().unwrap_or(0) of SumType::fixed_size_of
fixed_size_max(tys) ==
    IF tys = <<>>
    THEN 0
    ELSE LET h == fixed_size_of(Head(tys))
             t == fixed_size_max(Tail(tys))
         IN IF h >= t THEN h ELSE t

\* FixedSizeOf for AlgebraicType, SumType, ProductType and MapType
fixed_size_of(ty) ==
    CASE ty.kind = "Sum" -> 1 + fixed_size_max(ty.variants)
      [] ty.kind = "Product" -> fixed_size_sum(ty.elements)
      [] ty.kind = "String" -> 32 * 1
      [] ty.kind = "Array" -> fixed_size_of(ty.elem_ty) * 32
      [] ty.kind = "Map" -> (fixed_size_of(ty.key_ty) + fixed_size_of(ty.ty)) * 32
      [] OTHER -> size_of(ty.kind)

RECURSIVE Pow256(_)
Pow256(n) == IF n = 0 THEN 1 ELSE 256 * Pow256(n - 1)

\* A to_le_bytes that writes the most significant byte first.
to_be_bytes(v, w) ==
    LET u == v % Pow256(w) IN [i \in 1 .. w |-> (u \div Pow256(w - i)) % 256]

\* {integer}::to_le_bytes on an integer of w bytes (two's complement).
to_le_bytes(v, w) ==
    LET u == v % Pow256(w) IN [i \in 1 .. w |-> (u \div Pow256(i - 1)) % 256]

RECURSIVE le_sum(_, _)
le_sum(bytes, w) ==
    IF w = 0 THEN 0 ELSE bytes[w] * Pow256(w - 1) + le_sum(bytes, w - 1)

\* {integer}::from_le_bytes(first_chunk_unwrap(buffer)) for an integer of w
\* bytes, signed or not.
from_le_bytes(buffer, w, signed) ==
    LET u == le_sum(buffer, w) IN
    IF signed /\ u >= Pow256(w) \div 2 THEN u - Pow256(w) ELSE u

SignedKinds == {"I8", "I16"}

RECURSIVE serialize(_, _)
RECURSIVE serialize_elements(_, _)

\* ProductValue::serialize: each element in turn.
serialize_elements(elements, buffer) ==
    IF elements = <<>>
    THEN buffer
    ELSE serialize_elements(Tail(elements), serialize(Head(elements), buffer))

\* SerializeFlat for AlgebraicValue, SumValue and ProductValue: the buffer
\* after the value has been appended to it.
serialize(v, buffer) ==
    CASE v.kind = "Sum" -> serialize(v.value, Append(buffer, v.tag))
      [] v.kind = "Product" -> serialize_elements(v.elements, buffer)
      [] v.kind = "Bool" -> Append(buffer, IF v.b THEN 1 ELSE 0)
      [] OTHER -> buffer \o to_le_bytes(v.v, size_of(v.kind))

\* &buffer[n..]
SliceFrom(buffer, n) == SubSeq(buffer, n + 1, Len(buffer))

RECURSIVE nest(_, _)
RECURSIVE nest_elements(_, _, _)

\* The map of FlatProductValue::nest: the elements decoded so far and the
\* rest of the buffer.
nest_elements(buffer, tys, elements) ==
    IF tys = <<>>
    THEN [buffer |-> buffer, elements |-> elements]
    ELSE LET r == nest(buffer, Head(tys))
         IN nest_elements(SliceFrom(buffer, r.len), Tail(tys), Append(elements, r.value))

\* FlatAlgebraicValue::nest, FlatSumValue::nest and FlatProductValue::nest:
\* the length consumed and the value.
nest(buffer, ty) ==
    CASE ty.kind = "Sum" ->
            LET tag == buffer[1]
                r == nest(SliceFrom(buffer, 1), ty.variants[tag + 1])
            IN [len |-> 1 + r.len, value |-> SumVal(tag, r.value)]
      [] ty.kind = "Product" ->
            LET r == nest_elements(buffer, ty.elements, <<>>)
            IN [len |-> Len(buffer) - Len(r.buffer), value |-> ProductVal(r.elements)]
      [] ty.kind = "Bool" -> [len |-> 1, value |-> BoolVal(buffer[1] # 0)]
      [] OTHER ->
            [len |-> size_of(ty.kind),
             value |-> BuiltinVal(ty.kind, from_le_bytes(buffer, size_of(ty.kind),
                                                         ty.kind \in SignedKinds))]

\* The values tried of each builtin type: the extremes and their neighbours.
BuiltinSamples(kind) ==
    CASE kind = "U8" -> {0, 42, 255}
      [] kind = "I8" -> {-128, -1, 0, 127}
      [] kind = "U16" -> {0, 255, 256, 65535}
      [] kind = "I16" -> {-32768, -1, 256, 32767}

RECURSIVE ValuesOf(_)
RECURSIVE ValuesOfAll(_)

\* The sequences of values of the types tys, one of each.
ValuesOfAll(tys) ==
    IF tys = <<>>
    THEN {<<>>}
    ELSE {<<h>> \o t : h \in ValuesOf(Head(tys)), t \in ValuesOfAll(Tail(tys))}

\* The values tried of a type.
ValuesOf(ty) ==
    CASE ty.kind = "Sum" ->
            UNION {{SumVal(i - 1, x) : x \in ValuesOf(ty.variants[i])} :
                       i \in 1 .. Len(ty.variants)}
      [] ty.kind = "Product" -> {ProductVal(es) : es \in ValuesOfAll(ty.elements)}
      [] ty.kind = "Bool" -> {BoolVal(TRUE), BoolVal(FALSE)}
      [] OTHER -> {BuiltinVal(ty.kind, x) : x \in BuiltinSamples(ty.kind)}

\* The types whose values are encoded and decoded: the builtin ones, the
\* product of the test it_works, and sums and products over them.
EncValueTypes ==
    {Prim(k) : k \in {"Bool", "U8", "I8", "U16", "I16"}}
    \cup {ProductTy(<<>>),
          ProductTy(<<Prim("U8"), Prim("U8")>>),
          ProductTy(<<Prim("Bool"), Prim("U16"), Prim("I8")>>),
          ProductTy(<<SumTy(<<Prim("U8"), Prim("I16")>>), Prim("U8")>>),
          SumTy(<<Prim("Bool")>>),
          SumTy(<<Prim("I16"), ProductTy(<<Prim("U8"), Prim("U16")>>), ProductTy(<<>>)>>)}

\* The types whose fixed size alone is computed.
EncSizeTypes ==
    {Prim(k) : k \in {"I32", "U32", "I64", "U64", "I128", "U128", "F32", "F64", "String"}}
    \cup {SumTy(<<>>),
          ArrayTy(Prim("U8")),
          ArrayTy(Prim("U16")),
          SumTy(<<Prim("U64"), Prim("String")>>),
          ProductTy(<<Prim("I32"), Prim("String"), Prim("F64")>>)}

\* What is already in the buffer when serialize is called.
EncPrefixes == {<<>>, <<7>>}

EncIdle ==
    [st |-> "type", ty |-> Prim("Bool"), val |-> None, start |-> 0, buffer |-> <<>>,
     nested |-> None, size |-> None]

\* What SpecEncoding starts from: a type and a value of it, or a type alone.
EncInputs ==
    UNION {{[EncIdle EXCEPT !.st = "value", !.ty = ty, !.val = v] : v \in ValuesOf(ty)} :
               ty \in EncValueTypes}
    \cup {[EncIdle EXCEPT !.ty = ty] : ty \in EncSizeTypes}

EncFrame == UNCHANGED <<omvars, pgvars, tblvars, dbvars, scvars, catvars, clvars, lpvars>>

\* ty.fixed_size_of()
EncFixedSizeOf ==
    /\ enc.size = None
    /\ enc' = [enc EXCEPT !.size = Some(fixed_size_of(enc.ty))]
    /\ EncFrame

\* value.serialize(&mut buffer)
EncSerialize(prefix) ==
    /\ enc.st = "value"
    /\ enc' = [enc EXCEPT !.st = "flat", !.start = Len(prefix),
                          !.buffer = serialize(enc.val, prefix)]
    /\ EncFrame

\* flat.nest(&ty), on the FlatValue serialize returned: &buffer[start..]
EncNest ==
    /\ enc.st = "flat"
    /\ enc' = [enc EXCEPT !.st = "nested",
                          !.nested = Some(nest(SliceFrom(enc.buffer, enc.start), enc.ty))]
    /\ EncFrame

\* C24: the flat encoding round-trips: for every value v of a type T built
\* from bool, fixed-width integers, sums and products, nest(serialize(v), T)
\* gives a value equal to v and reports as consumed length the number of
\* bytes serialize wrote.
C24_FlatEncodingRoundTrips ==
    enc.st = "nested" =>
        /\ enc.nested.val.value = enc.val
        /\ enc.nested.val.len = Len(enc.buffer) - enc.start

\* A product holding a sum, encoded behind bytes already in the buffer, has
\* been decoded.
C24_Witness ==
    /\ enc.st = "nested"
    /\ enc.start > 0
    /\ enc.val = ProductVal(<<SumVal(1, BuiltinVal("I16", -1)), BuiltinVal("U8", 255)>>)
    /\ enc.buffer = <<7, 1, 255, 255, 255>>

\* C25: fixed_size_of gives the fixed size of every type: a primitive has its
\* natural width, a sum 1 + the maximum fixed size of its variants (1 with
\* no variants), a product the sum of its elements' fixed sizes, a string or
\* an array of any element type the inline budget of 32 bytes.
C25_FixedSizeOfEveryType ==
    enc.size # None =>
        LET ty == enc.ty
            n == enc.size.val
        IN CASE ty.kind = "Sum" -> n = 1 + fixed_size_max(ty.variants)
             [] ty.kind = "Product" -> n = fixed_size_sum(ty.elements)
             [] ty.kind \in {"String", "Array"} -> n = 32
             [] ty.kind \in {"Bool", "I8", "U8"} -> n = 1
             [] ty.kind \in {"I16", "U16"} -> n = 2
             [] ty.kind \in {"I32", "U32", "F32"} -> n = 4
             [] ty.kind \in {"I64", "U64", "F64"} -> n = 8
             [] ty.kind \in {"I128", "U128"} -> n = 16

\* C37: every row occupies exactly fixed_row_size bytes: the flat
\* serialization of any value of a type has length fixed_size_of(type), also
\* for sums whose variants have different sizes.
C37_SerializedLengthIsFixedSize ==
    enc.st \in {"flat", "nested"} =>
        Len(enc.buffer) - enc.start = fixed_size_of(enc.ty)

\* ------------------------------------------------------------------------
\* LendingPool (crates/core/src/util/lending_pool.rs)
\* ------------------------------------------------------------------------

\* The tasks that call request() concurrently and the resources handed to
\* add_multiple.
MaxTasks == 3
MaxResources == 2
LpTasks == 1 .. MaxTasks
LpResources == 1 .. MaxResources
NoTask == 0

\* The iterators handed to add_multiple: sequences of distinct resources.
LpIterators ==
    {<<>>} \cup {<<r>> : r \in LpResources}
           \cup {rq \in LpResources \X LpResources : rq[1] # rq[2]}

LpNoRet == [tag |-> "none", val |-> "none"]

\* LendingPool::new(): mu holds None and is unlocked. locked_by is the task
\* whose guard holds mu; pc and ret are the tasks' positions (idle, waiting
\* in lock_owned().await, holding a LentResource) and what their last
\* request resolved to; add_ret is what the last add_multiple returned.
LendingPool_new ==
    [mu |-> None, locked_by |-> NoTask, closed |-> FALSE,
     pc |-> [t \in LpTasks |-> "idle"], ret |-> [t \in LpTasks |-> LpNoRet],
     add_ret |-> Ok("unit")]

\* A faulty variant of the wait below: lock_owned() that does not wait.
lock_owned_enabled_nowait(P) == TRUE

\* mu.lock_owned().await completes only while no guard of mu exists.
lock_owned_enabled(P) == P.locked_by = NoTask

\* request(), after lock_owned() has returned the guard to task t:
\* try_map(x, Option::as_mut) makes the LentResource when mu holds a
\* resource; on None the guard comes back and is dropped, and the request
\* resolves to Err(PoolClosed).
request_resolve(P, t) ==
    IF P.mu.tag = "None"
    THEN [P EXCEPT !.pc[t] = "idle", !.ret[t] = Err("PoolClosed")]
    ELSE [P EXCEPT !.locked_by = t, !.pc[t] = "holding", !.ret[t] = Ok("LentResource")]

\* The LentResource of task t is dropped: its guard unlocks mu.
LentResource_drop(P, t) ==
    [P EXCEPT !.locked_by = NoTask, !.pc[t] = "idle"]

\* add_multiple: try_lock().unwrap() panics while mu is locked; otherwise
\* mu takes the first resource of the iterator, or None.
add_multiple(P, resources) ==
    IF P.locked_by # NoTask
    THEN [P EXCEPT !.add_ret = Panic("called Result::unwrap() on an Err value: TryLockError")]
    ELSE [P EXCEPT !.mu = IF resources = <<>> THEN None ELSE Some(Head(resources)),
                   !.add_ret = Ok("unit")]

LpFrame == UNCHANGED <<omvars, pgvars, tblvars, dbvars, scvars, catvars, clvars, encvars>>

\* Task t calls request() and its future is polled: it waits for mu.
LpRequest(t) ==
    /\ lp.pc[t] = "idle"
    /\ lp' = [lp EXCEPT !.pc[t] = "waiting", !.ret[t] = LpNoRet]
    /\ LpFrame

\* The request of task t gets the guard of mu and resolves.
LpGrant(t) ==
    /\ lp.pc[t] = "waiting"
    /\ lock_owned_enabled(lp)
    /\ lp' = request_resolve(lp, t)
    /\ LpFrame

\* Task t drops its LentResource.
LpDrop(t) ==
    /\ lp.pc[t] = "holding"
    /\ lp' = LentResource_drop(lp, t)
    /\ LpFrame

\* add_multiple(resources), and add(resource) as add_multiple of one.
LpAddMultiple(resources) ==
    /\ lp' = add_multiple(lp, resources)
    /\ LpFrame

\* close(): closed_notify is notified; mu is not touched.
LpClose ==
    /\ ~lp.closed
    /\ lp' = [lp EXCEPT !.closed = TRUE]
    /\ LpFrame

LpHolders(P) == {t \in LpTasks : P.pc[t] = "holding"}

\* C39: the pool lends its resource to at most one holder at a time: at
\* most one LentResource exists at any moment, a pending request is granted
\* only when no LentResource exists, and a request that gets to a pool
\* holding no resource resolves to Err(PoolClosed).
C39_OneHolderAtATime ==
    [][/\ Cardinality(LpHolders(lp')) <= 1
       /\ \A t \in LpTasks :
             (LpGrant(t) /\ lp.pc[t] = "waiting" /\ lp'.pc[t] # "waiting") =>
                 IF lp.mu.tag = "None"
                 THEN lp'.ret[t].tag = "Err" /\ lp'.pc[t] = "idle"
                 ELSE /\ LpHolders(lp) = {}
                      /\ lp'.ret[t].tag = "Ok"
                      /\ LpHolders(lp') = {t}]_vars

\* One task holds the LentResource while another waits for it, and a third
\* has had Err(PoolClosed) from a pool without a resource.
C39_Witness ==
    \E t \in LpTasks, u \in LpTasks, w \in LpTasks :
        /\ lp.pc[t] = "holding"
        /\ lp.pc[u] = "waiting"
        /\ lp.ret[w].tag = "Err"

\* ------------------------------------------------------------------------
\* Specifications
\* ------------------------------------------------------------------------

InitDB ==
    /\ lock_file = NoHandle
    /\ hstate = [h \in Handles |-> HClosed]
    /\ boot = [h \in Handles |-> FALSE]
    /\ inner = [h \in Handles |-> Locking_bootstrap]
    /\ mlog = <<>>
    /\ pc = [t \in Threads |-> "idle"]
    /\ th = [t \in Threads |-> NoHandle]
    /\ tx_id = [t \in Threads |-> 0]
    /\ tx_data = [t \in Threads |-> EmptyTx]
    /\ next_tx = 1
    /\ db_ret = [t \in Threads |-> NoRet]
    /\ wrote = [t \in Threads |-> {}]
    /\ snap = [t \in Threads |-> EmptyState]
    /\ last_end = [h \in Handles |-> NoEnd]
    /\ acc = [h \in Handles |-> EmptyState]
    /\ scope = [t \in Threads |-> NoScope]
    /\ cat = CatInit
    /\ cat_log = <<>>
    /\ cat_ret = CatNoRet

InitCommitLog == clog = ClOpened(<<>>)

InitEncoding == enc = EncIdle

InitLendingPool == lp = LendingPool_new

InitFlat ==
    /\ om = OffsetMap_default
    /\ om_live = [h \in Hashes |-> {}]
    /\ om_ret = OmIdle
    /\ pg = Pages_default
    /\ pg_ret = PgIdle
    /\ table = Table_new
    /\ t_inserted = {}
    /\ t_ret = TblIdle

InitOffsetMap == InitFlat /\ InitDB /\ InitCommitLog /\ InitEncoding /\ InitLendingPool

NextOffsetMap ==
    \/ \E h \in Hashes, o \in OMOffsets : OmInsert(h, o)
    \/ \E h \in Hashes, o \in OMOffsets : OmRemove(h, o)

SpecOffsetMap == InitOffsetMap /\ [][NextOffsetMap]_vars

InitPages == InitFlat /\ InitDB /\ InitCommitLog /\ InitEncoding /\ InitLendingPool

NextPages ==
    \/ \E n \in AllocateCounts : PgAllocate(n)
    \/ \E b \in AppendInputs : PgAppend(b)
    \/ \E pi \in PageIndices, po \in 0 .. PAGE_SIZE, n \in 0 .. (PAGE_SIZE + 1) :
          PgSwapRemove(BufferOffset(pi, po), n)
    \/ PgShrinkToFit

SpecPages == InitPages /\ [][NextPages]_vars

InitTable == InitFlat /\ InitDB /\ InitCommitLog /\ InitEncoding /\ InitLendingPool

NextTable ==
    \/ \E r \in Rows : TblInsert(r)
    \/ \E h \in Hashes, pi \in PageIndices, po \in 0 .. PAGE_SIZE :
          TblDelete(h, BufferOffset(pi, po))

SpecTable == InitTable /\ [][NextTable]_vars

NextDB ==
    \/ \E h \in Handles : OpenCall(h)
    \/ \E h \in Handles : OpenStep(h)
    \/ \E h \in Handles : Close(h)
    \/ \E t \in Threads, h \in Handles : BeginCall(t, h)
    \/ \E t \in Threads : BeginAcquire(t)
    \/ \E t \in Threads, id \in TableIds : CreateTable(t, id)
    \/ \E t \in Threads, id \in TableIds : DropTable(t, id)
    \/ \E t \in Threads, id \in TableIds, row \in DbRows : Insert(t, id, row)
    \/ \E t \in Threads, id \in TableIds, row \in DbRows : DeleteByRel(t, id, row)
    \/ \E t \in Threads, id \in TableIds : Iter(t, id)
    \/ \E t \in Threads : RollbackTx(t)
    \/ \E t \in Threads : CommitTxDatastore(t)
    \/ \E t \in Threads : CommitTxAppend(t)

InitRelationalDB == InitFlat /\ InitDB /\ InitCommitLog /\ InitEncoding /\ InitLendingPool

SpecDB == InitRelationalDB /\ [][NextDB]_vars

InitScope == InitFlat /\ InitDB /\ InitCommitLog /\ InitEncoding /\ InitLendingPool

NextScope ==
    \/ OpenCall("h1")
    \/ OpenStep("h1")
    \/ \E t \in Threads, fn \in ScopeFns : ScopeCall(t, "h1", fn)
    \/ \E t \in Threads : BeginAcquire(t)
    \/ \E t \in Threads, id \in TableIds : CreateTable(t, id)
    \/ \E t \in Threads, id \in TableIds, row \in DbRows : Insert(t, id, row)
    \/ \E t \in Threads, res \in FResults : ScopeFReturn(t, res)
    \/ \E t \in Threads : ScopeRollback(t)
    \/ \E t \in Threads, o \in CommitOutcomes : ScopeCommit(t, o)
    \/ \E t \in Threads, o \in AppendOutcomes : ScopeAppend(t, o)

SpecScope == InitScope /\ [][NextScope]_vars

InitCatalog == InitFlat /\ InitDB /\ InitCommitLog /\ InitEncoding /\ InitLendingPool

NextCatalog ==
    \/ CatBegin
    \/ \E name \in TableDefNames : CatCreateTable(name)
    \/ \E id \in CatTableIds : CatDropTable(id)
    \/ \E id \in CatTableIds, new_name \in CatNewNames : CatRenameTable(id, new_name)
    \/ \E id \in CatTableIds, name \in TableDefNames :
           \E row \in TableDef(name).inputs : CatInsert(id, row)
    \/ \E id \in CatTableIds, q \in CatEqQueries : CatIterByColEq(id, q)
    \/ \E id \in CatTableIds, range \in CatRanges : CatIterByColRange(id, range)
    \/ CatCommit
    \/ CatClose
    \/ CatOpen

SpecCatalog == InitCatalog /\ [][NextCatalog]_vars

\* SpecCommitLog: one directory, opened, written to and reopened
NextCommitLog ==
    \/ \E tx \in TxPayloads, flush \in BOOLEAN : ClAppendTx(tx, flush)
    \/ ClClose
    \/ \E fault \in OpenFaults(clog.log) : ClOpen(fault)

InitLogDirectory == InitFlat /\ InitDB /\ InitCommitLog /\ InitEncoding /\ InitLendingPool

SpecCommitLog == InitLogDirectory /\ [][NextCommitLog]_vars

\* SpecEncoding: a type and a value of it are drawn, the value is serialized
\* and nested back, and the fixed size of the type is computed
InitEncodingInputs == InitFlat /\ InitDB /\ InitCommitLog /\ enc \in EncInputs /\ InitLendingPool

NextEncoding ==
    \/ EncFixedSizeOf
    \/ \E prefix \in EncPrefixes : EncSerialize(prefix)
    \/ EncNest

SpecEncoding == InitEncodingInputs /\ [][NextEncoding]_vars

\* SpecLendingPool: tasks request the resource of one pool and drop it, while
\* resources are added and the pool is closed
InitPool == InitFlat /\ InitDB /\ InitCommitLog /\ InitEncoding /\ InitLendingPool

NextLendingPool ==
    \/ \E t \in LpTasks : LpRequest(t)
    \/ \E t \in LpTasks : LpGrant(t)
    \/ \E t \in LpTasks : LpDrop(t)
    \/ \E resources \in LpIterators : LpAddMultiple(resources)
    \/ LpClose

SpecLendingPool == InitPool /\ [][NextLendingPool]_vars

====
